---- MODULE Spec2Model ----
(***************************************************************************)
(* Forecise: the accuracy-weighted consensus engine                        *)
(* (crates/consensus/src/engine.rs) and the workers that feed it           *)
(* (crates/workers/src/{ingestion,movement,main}.rs).                      *)
(*                                                                         *)
(* Numbers.  The engine computes in f64.  Here the field operations        *)
(* (+ - * /) are exact rational arithmetic on [num, den] records, and the  *)
(* three irrational functions the engine calls (sqrt, ln, log10) are       *)
(* rounded down to a fixed number of decimals.  Probabilities of a         *)
(* SourceInput are given in hundredths, accuracy_pct in whole percent.     *)
(* The movement detector compares f64 values against a threshold, so its   *)
(* arithmetic is IEEE-754 binary64, bit for bit; so is the arithmetic of   *)
(* the Brier scores (crates/consensus/src/brier.rs).                       *)
(***************************************************************************)
EXTENDS Integers, Sequences, FiniteSets, TLC

VARIABLES
    sources,         \* engine: the &[SourceInput] handed to calculate_consensus
    result,          \* engine: Pending, or the Result<ConsensusResult> returned
    source_markets,  \* table source_markets
    odds_history,    \* table odds_history
    markets,         \* table markets
    movement_events, \* table movement_events
    clock,           \* the latest reading of Utc::now()
    adapter,         \* per venue adapter: where process_market stands, its locals
    detector,        \* where detect_movements stands, its locals
    started,         \* how many records, passes and resolutions have been taken up
    brier_call,      \* brier.rs: the function called and its arguments
    brier_returned,  \* brier.rs: Pending, or what the call returned
    consensus_snapshots, \* table consensus_snapshots
    accuracy_records,    \* table accuracy_records
    consensus,       \* where compute_all_consensus stands, its locals
    fetch            \* per venue adapter: where fetch_and_store stands, its locals

engineVars == <<sources, result>>
tables == <<source_markets, odds_history, markets, movement_events>>
workerVars == <<tables, clock, adapter, detector, started>>
brierVars == <<brier_call, brier_returned>>
consensusVars == <<consensus_snapshots, accuracy_records, consensus>>
vars == <<engineVars, workerVars, brierVars, consensusVars, fetch>>

-----------------------------------------------------------------------------
(* Option<T>: None is the empty sequence, Some(x) the sequence <<x>> *)
None == << >>
Some(x) == << x >>

Min(a, b) == IF a <= b THEN a ELSE b
Max(a, b) == IF a >= b THEN a ELSE b
Abs(a) == IF a < 0 THEN -a ELSE a

RECURSIVE GCD(_, _)
GCD(a, b) == IF b = 0 THEN a ELSE GCD(b, a % b)

(* Exact rationals, kept in lowest terms with a positive denominator. *)
Rat(n, d) ==
    LET g == GCD(Abs(n), Abs(d))
        s == IF d < 0 THEN -1 ELSE 1
    IN  [num |-> s * (n \div g), den |-> s * (d \div g)]

RatAdd(a, b) ==
    LET g == GCD(a.den, b.den)
        l == (a.den \div g) * b.den
    IN  Rat(a.num * (l \div a.den) + b.num * (l \div b.den), l)

RatNeg(a) == [num |-> -a.num, den |-> a.den]
RatSub(a, b) == RatAdd(a, RatNeg(b))
RatMul(a, b) ==
    LET x == Rat(a.num, b.den)
        y == Rat(b.num, a.den)
    IN  Rat(x.num * y.num, x.den * y.den)
RatDiv(a, b) == RatMul(a, Rat(b.den, b.num))
RatAbs(a) == [num |-> Abs(a.num), den |-> a.den]
RatLt(a, b) == a.num * b.den < b.num * a.den
RatLe(a, b) == a.num * b.den <= b.num * a.den
RatClamp(a, lo, hi) == IF RatLt(a, lo) THEN lo ELSE IF RatLt(hi, a) THEN hi ELSE a
Zero == Rat(0, 1)
One == Rat(1, 1)

RECURSIVE SeqMapTo(_, _, _)
SeqMapTo(Op(_), s, n) ==
    IF n = 0 THEN << >> ELSE Append(SeqMapTo(Op, s, n - 1), Op(s[n]))
(* iter().map(Op).collect(): the sequence of Op(s[i]) *)
SeqMap(Op(_), s) == SeqMapTo(Op, s, Len(s))

(* Op applied to the value of its arguments: an argument that is itself a  *)
(* long computation is worked out once, before Op reads it                 *)
Eval1(Op(_), x) == CHOOSE r \in { Op(v) : v \in {x} } : TRUE
Eval2(Op(_, _), x, y) == CHOOSE r \in { Op(u, v) : u \in {x}, v \in {y} } : TRUE

RECURSIVE SeqZipTo(_, _, _, _)
SeqZipTo(Op(_, _), s, t, n) ==
    IF n = 0 THEN << >> ELSE Append(SeqZipTo(Op, s, t, n - 1), Op(s[n], t[n]))
(* iter().zip(t).map(Op).collect(): the sequence of Op(s[i], t[i]) *)
SeqZip(Op(_, _), s, t) == SeqZipTo(Op, s, t, Min(Len(s), Len(t)))

RECURSIVE RatSumTo(_, _)
RatSumTo(f, n) == IF n = 0 THEN Zero ELSE RatAdd(RatSumTo(f, n - 1), f[n])
(* iter().sum() over a Vec<f64> *)
RatSum(f) == RatSumTo(f, Len(f))

RECURSIVE IntSumTo(_, _)
IntSumTo(f, n) == IF n = 0 THEN 0 ELSE IntSumTo(f, n - 1) + f[n]
IntSum(f) == IntSumTo(f, Len(f))

(* floor(a * b / c) for a, b >= 0 and c > 0 without forming a * b *)
MulDiv(a, b, c) == (a \div c) * b + ((a % c) * b) \div c

(* Fixed point: results of sqrt, ln and log10, and the scores built from   *)
(* them (agreement, confidence), are counted in units of 1 / FixedScale.   *)
FixedScale == 10000

RECURSIVE ISqrtBits(_, _, _)
ISqrtBits(x, r, bit) ==
    IF bit = 0 THEN r
    ELSE IF (r + bit) * (r + bit) <= x THEN ISqrtBits(x, r + bit, bit \div 2)
         ELSE ISqrtBits(x, r, bit \div 2)
(* floor(sqrt(x)) for 0 <= x < 2^30 *)
ISqrt(x) == ISqrtBits(x, 0, 16384)

(* f64::sqrt of a value v in [0, 1] given in units of 1/FixedScale^2,      *)
(* rounded down to units of 1/FixedScale.                                  *)
SqrtFixed(v) == ISqrt(v)

(* ExpTenths[k + 1] = ceil(e^(k/10)): the least integer whose natural log  *)
(* is at least k/10, for k = 0 .. 69.                                      *)
ExpTenths ==
    <<
       1, 2, 2, 2, 2, 2, 2, 3, 3, 3,
       3, 4, 4, 4, 5, 5, 5, 6, 7, 7,
       8, 9, 10, 10, 12, 13, 14, 15, 17, 19,
       21, 23, 25, 28, 30, 34, 37, 41, 45, 50,
       55, 61, 67, 74, 82, 91, 100, 110, 122, 135,
       149, 165, 182, 201, 222, 245, 271, 299, 331, 366,
       404, 446, 493, 545, 602, 666, 736, 813, 898, 993
    >>

(* Pow10Tenths[k + 1] = ceil(10^(k/10)), for k = 0 .. 90. *)
Pow10Tenths ==
    <<
       1, 2, 2, 2, 3, 4, 4, 6, 7, 8,
       10, 13, 16, 20, 26, 32, 40, 51, 64, 80,
       100, 126, 159, 200, 252, 317, 399, 502, 631, 795,
       1000, 1259, 1585, 1996, 2512, 3163, 3982, 5012, 6310, 7944,
       10000, 12590, 15849, 19953, 25119, 31623, 39811, 50119, 63096, 79433,
       100000, 125893, 158490, 199527, 251189, 316228, 398108, 501188, 630958, 794329,
       1000000, 1258926, 1584894, 1995263, 2511887, 3162278, 3981072, 5011873, 6309574, 7943283,
       10000000, 12589255, 15848932, 19952624, 25118865, 31622777, 39810718, 50118724, 63095735, 79432824,
       100000000, 125892542, 158489320, 199526232, 251188644, 316227767, 398107171, 501187234, 630957345, 794328235,
       1000000000
    >>

RECURSIVE LogFloor(_, _, _, _)
(* the largest k in lo..hi with table[k + 1] <= n, by bisection; the caller *)
(* gives table[lo + 1] <= n                                                *)
LogFloor(table, n, lo, hi) ==
    IF lo = hi THEN lo
    ELSE LET mid == (lo + hi + 1) \div 2
         IN  IF table[mid + 1] <= n THEN LogFloor(table, n, mid, hi)
             ELSE LogFloor(table, n, lo, mid - 1)

(* f64::ln(n) for an integer n >= 1, rounded down to tenths *)
LnTenths(n) == LogFloor(ExpTenths, n, 0, Len(ExpTenths) - 1)

(* f64::log10(v) for an integer v >= 1, rounded down to tenths *)
Log10Tenths(v) == LogFloor(Pow10Tenths, v, 0, Len(Pow10Tenths) - 1)

-----------------------------------------------------------------------------
(* IEEE-754 binary64, for the values the movement detector computes with.  *)
(* A non-negative finite f64 x is held exactly as the integer x * 2^80,    *)
(* written in NumLimbs limbs of LimbBits bits, least significant first.    *)
(* Every f64 in [2^-20, 2^10) is a multiple of 2^-72, so it, and every     *)
(* difference of two such values, has such a form.  Rounding is to 53      *)
(* significant bits, nearest, ties to even.                                *)

LimbBits == 10
NumLimbs == 9
FracLimbs == NumLimbs - 1
LimbBase == 2 ^ LimbBits

RECURSIVE BitLength(_)
(* the number of bits of a natural number: 0 for 0 *)
BitLength(x) == IF x = 0 THEN 0 ELSE 1 + BitLength(x \div 2)

RECURSIVE TopLimb(_, _)
(* the highest index <= i of a non-zero limb, 0 if there is none *)
TopLimb(N, i) == IF i = 0 \/ N[i] # 0 THEN i ELSE TopLimb(N, i - 1)

BitLen(N) ==
    LET t == TopLimb(N, Len(N))
    IN  IF t = 0 THEN 0 ELSE LimbBits * (t - 1) + BitLength(N[t])

(* bit k of N, counting from 0 *)
BitAt(N, k) == (N[(k \div LimbBits) + 1] \div (2 ^ (k % LimbBits))) % 2

(* whether any bit of N below bit k is set *)
AnyBitBelow(N, k) ==
    \/ \E i \in 1..(k \div LimbBits) : N[i] # 0
    \/ N[(k \div LimbBits) + 1] % (2 ^ (k % LimbBits)) # 0

(* N with the bits below bit k cleared *)
ClearBelow(N, k) ==
    [i \in 1..Len(N) |->
        IF i < (k \div LimbBits) + 1 THEN 0
        ELSE IF i = (k \div LimbBits) + 1
             THEN (N[i] \div (2 ^ (k % LimbBits))) * (2 ^ (k % LimbBits))
             ELSE N[i]]

RECURSIVE Carry(_, _, _)
(* the limbs of a number given by columns that may exceed a limb, written  *)
(* out from limb i on, c being the carry into it                           *)
Carry(cols, i, c) ==
    IF i > Len(cols) THEN << >>
    ELSE LET x == cols[i] + c
         IN  << x % LimbBase >> \o Carry(cols, i + 1, x \div LimbBase)

(* N + 2^k, the carry running upward *)
AddBit(N, k) ==
    Carry([i \in 1..Len(N) |->
              IF i = (k \div LimbBits) + 1 THEN N[i] + 2 ^ (k % LimbBits) ELSE N[i]],
          1, 0)

(* N, with sticky telling that a non-zero remainder lies below its last    *)
(* bit, rounded to 53 significant bits, to nearest, ties to even           *)
Round53(N, sticky) ==
    IF BitLen(N) <= 53 THEN N
    ELSE LET drop == BitLen(N) - 53
             half == BitAt(N, drop - 1) = 1
             rest == sticky \/ AnyBitBelow(N, drop - 1)
             odd == BitAt(N, drop) = 1
             kept == ClearBelow(N, drop)
         IN  IF half /\ (rest \/ odd) THEN AddBit(kept, drop) ELSE Carry(kept, 1, 0)

RECURSIVE LongDiv(_, _, _, _)
(* the FracLimbs fraction limbs of rem / d and whether a remainder is left *)
LongDiv(rem, d, i, acc) ==
    IF i = 0 THEN [limbs |-> acc, sticky |-> rem # 0]
    ELSE LongDiv((rem * LimbBase) % d, d, i - 1,
                 << (rem * LimbBase) \div d >> \o acc)

(* the f64 nearest to x / d, for integers 0 <= x and 0 < d < 2^20 *)
F64FromRatio(x, d) ==
    LET q == LongDiv(x % d, d, FracLimbs, << >>)
    IN  Round53(Append(q.limbs, x \div d), q.sticky)

(* str::parse::<f64> of a decimal with six fractional digits, given in     *)
(* millionths                                                              *)
F64FromDecimal(micro) == F64FromRatio(micro, 1000000)

RECURSIVE GeFrom(_, _, _)
GeFrom(A, B, i) ==
    IF i = 0 THEN TRUE
    ELSE IF A[i] # B[i] THEN A[i] > B[i] ELSE GeFrom(A, B, i - 1)
(* a >= b *)
F64Ge(A, B) == GeFrom(A, B, Len(A))
(* a > b *)
F64Gt(A, B) == ~F64Ge(B, A)

RECURSIVE SubFrom(_, _, _, _)
(* A - B for A >= B, limb by limb with borrow *)
SubFrom(A, B, i, borrow) ==
    IF i > Len(A) THEN << >>
    ELSE LET d == A[i] - B[i] - borrow
         IN  << IF d < 0 THEN d + LimbBase ELSE d >>
             \o SubFrom(A, B, i + 1, IF d < 0 THEN 1 ELSE 0)

(* (a - b).abs() *)
F64AbsDiff(A, B) ==
    IF F64Ge(A, B) THEN Round53(SubFrom(A, B, 1, 0), FALSE)
    ELSE Round53(SubFrom(B, A, 1, 0), FALSE)

RECURSIVE MulFrac(_, _, _, _, _)
(* the fraction limbs of N times c: the product's fraction limbs and the   *)
(* carry into the integer part                                             *)
MulFrac(N, c, i, carry, acc) ==
    IF i > FracLimbs THEN [frac |-> acc, carry |-> carry]
    ELSE MulFrac(N, c, i + 1, (N[i] * c + carry) \div LimbBase,
                 Append(acc, (N[i] * c + carry) % LimbBase))

(* format!("{:.digits}", x) read as an integer number of 10^-digits: the   *)
(* exact value rounded to nearest, ties to even                            *)
F64ToDecimal(N, digits) ==
    LET p == MulFrac(N, 10 ^ digits, 1, 0, << >>)
        int == N[NumLimbs] * (10 ^ digits) + p.carry
        half == p.frac[FracLimbs] >= LimbBase \div 2
        rest == \/ p.frac[FracLimbs] % (LimbBase \div 2) # 0
                \/ \E i \in 1..(FracLimbs - 1) : p.frac[i] # 0
    IN  IF half /\ (rest \/ int % 2 = 1) THEN int + 1 ELSE int

RECURSIVE ColumnSum(_, _, _, _)
(* the sum of the products A[j] * B[k + 1 - j] for j <= i: column k of the *)
(* product of A and B                                                      *)
ColumnSum(A, B, k, i) ==
    IF i = 0 THEN 0
    ELSE (IF k + 1 - i \in 1..Len(B) THEN A[i] * B[k + 1 - i] ELSE 0)
            + ColumnSum(A, B, k, i - 1)

(* the exact product of A and B, in Len(A) + Len(B) limbs of which         *)
(* 2 * FracLimbs are fraction limbs when A and B are f64 values            *)
MulLimbs(A, B) ==
    Carry([k \in 1..(Len(A) + Len(B)) |-> ColumnSum(A, B, k, Len(A))], 1, 0)

(* the exact sum of A and B *)
AddLimbs(A, B) == Carry([i \in 1..Len(A) |-> A[i] + B[i]], 1, 0)

(* an f64 value in the limbs of a product, FracLimbs more fraction limbs   *)
(* below it and one more limb above, and back: the low limbs of a rounded  *)
(* value are zero when it is 0 or at least 2^-27                           *)
Widen(A) ==
    Carry([i \in 1..(2 * NumLimbs) |->
              IF i <= FracLimbs \/ i > FracLimbs + NumLimbs THEN 0 ELSE A[i - FracLimbs]],
          1, 0)
Narrow(W) == Carry([i \in 1..NumLimbs |-> W[FracLimbs + i]], 1, 0)

(* an exact value rounded to 53 significant bits *)
Round53Exact(N) == Round53(N, FALSE)

(* a * b in f64, for a product that is 0 or at least 2^-27 *)
F64Mul(A, B) == Eval1(Narrow, Eval1(Round53Exact, Eval2(MulLimbs, A, B)))

(* a + b in f64 *)
F64Add(A, B) == Eval1(Round53Exact, Eval2(AddLimbs, A, B))

(* the smaller of a and b *)
F64Min(A, B) == IF F64Ge(A, B) THEN B ELSE A

RECURSIVE DivFrom(_, _, _, _)
(* the limbs of A \div n from limb i down, rem being what the limbs above  *)
(* left, and whether a remainder is left at the end                        *)
DivFrom(A, n, i, rem) ==
    IF i = 0 THEN [limbs |-> << >>, sticky |-> rem # 0]
    ELSE LET cur == rem * LimbBase + A[i]
             low == DivFrom(A, n, i - 1, cur % n)
         IN  [limbs |-> Append(low.limbs, cur \div n), sticky |-> low.sticky]

(* a / (n as f64) in f64, for 0 < n < 2^20 and a quotient that is 0 or at  *)
(* least 2^-26                                                             *)
DivLimbs(A, n) == DivFrom(A, n, Len(A), 0)
Round53Quotient(q) == Round53(q.limbs, q.sticky)
F64DivInt(A, n) == Eval1(Round53Quotient, Eval2(DivLimbs, A, n))

(* 2^-e as an f64 value, for 0 <= e <= LimbBits * FracLimbs *)
F64TwoToMinus(e) == AddBit(F64FromRatio(0, 1), LimbBits * FracLimbs - e)

-----------------------------------------------------------------------------
(* crates/consensus/src/engine.rs *)

MIN_RESOLVED_FOR_ACCURACY == 30
OUTLIER_THRESHOLD == Rat(15, 100)

(* SourceInput.probability (hundredths) as a number *)
Prob(s) == Rat(s.probability, 100)

(* Option::unwrap_or *)
UnwrapOr(o, d) == IF o = None THEN d ELSE o[1]

(* a variant without the gate on resolved_count *)
raw_weight_no_gate(s) ==
    LET accuracy == Rat(UnwrapOr(s.accuracy_pct, 50), 100)
        volume_boost == Rat(Max(LnTenths(Max(s.resolved_count, 1)), 10), 50)
    IN  RatMul(accuracy, RatAdd(One, volume_boost))

(* engine.rs 146-157: the raw weight of one source *)
raw_weight(s) ==
    IF s.resolved_count >= MIN_RESOLVED_FOR_ACCURACY
    THEN LET accuracy == Rat(UnwrapOr(s.accuracy_pct, 50), 100)
             volume_boost == Rat(Max(LnTenths(s.resolved_count), 10), 50)
         IN  RatMul(accuracy, RatAdd(One, volume_boost))
    ELSE Rat(1, 2)

raw_weights(srcs) == SeqMap(raw_weight, srcs)

(* mutant: the raw weights are returned without dividing by their sum *)
normalize_skipped(raw) == raw

(* mutant: no uniform fallback when the raw weights sum to 0 *)
normalize_no_fallback(raw) ==
    LET sum == RatSum(raw)
    IN  IF sum = Zero THEN raw ELSE SeqMap(LAMBDA w : RatDiv(w, sum), raw)

(* engine.rs 160-166: normalisation, uniform when the raw weights sum to 0 *)
normalize(raw) ==
    LET sum == RatSum(raw)
    IN  IF sum = Zero
        THEN SeqMap(LAMBDA w : Rat(1, Len(raw)), raw)
        ELSE SeqMap(LAMBDA w : RatDiv(w, sum), raw)

calculate_weights(srcs) == normalize(raw_weights(srcs))

(* mutant: the probabilities are summed without their weights *)
weighted_mean_unweighted(srcs, weights) == RatSum(SeqMap(Prob, srcs))

(* engine.rs 91-94 *)
weighted_mean(srcs, weights) ==
    RatSum(SeqZip(LAMBDA s, w : RatMul(Prob(s), w), srcs, weights))

(* |x| in units of 1/FixedScale, rounded down *)
ToFixed(x) == MulDiv(Abs(x.num), FixedScale, x.den)

(* engine.rs 97-100: sum of w * (p - mean)^2, in units of 1/FixedScale^2 *)
weighted_variance(srcs, weights, consensus_prob) ==
    IntSum(SeqZip(LAMBDA s, w :
                      LET d == ToFixed(RatSub(Prob(s), consensus_prob))
                      IN  MulDiv(d * d, w.num, w.den),
                  srcs, weights))

(* engine.rs 101 *)
agreement_of(variance) ==
    Max(FixedScale - Min(SqrtFixed(variance), FixedScale), 0)

(* mutant: a deviation equal to the threshold counts as an outlier *)
exceeds_threshold_or_equal(deviation) == RatLe(OUTLIER_THRESHOLD, deviation)

(* engine.rs 107: deviation > OUTLIER_THRESHOLD *)
exceeds_threshold(deviation) == RatLt(OUTLIER_THRESHOLD, deviation)

RECURSIVE outliers_from(_, _, _, _)
(* engine.rs 104-115: the loop over sources[i..] *)
outliers_from(srcs, consensus_prob, i, acc) ==
    IF i > Len(srcs) THEN acc
    ELSE LET deviation == RatAbs(RatSub(Prob(srcs[i]), consensus_prob))
         IN  IF exceeds_threshold(deviation)
             THEN outliers_from(srcs, consensus_prob, i + 1,
                      Append(acc, [source_id |-> srcs[i].source_id,
                                   probability |-> Prob(srcs[i]),
                                   deviation |-> deviation]))
             ELSE outliers_from(srcs, consensus_prob, i + 1, acc)

detect_outliers(srcs, consensus_prob) == outliers_from(srcs, consensus_prob, 1, <<>>)

(* engine.rs 174-205, in units of 1/FixedScale *)
calculate_confidence(srcs, agreement) ==
    LET n == Len(srcs)
        count_factor == Min((n * FixedScale) \div 5, FixedScale)
        known == SelectSeq(srcs, LAMBDA s : s.accuracy_pct # None)
        accuracies == SeqMap(LAMBDA s : s.accuracy_pct[1], known)
        accuracy_factor ==
            IF Len(accuracies) = 0 THEN FixedScale \div 2
            ELSE Min(MulDiv(IntSum(accuracies), FixedScale, Len(accuracies) * 100),
                     FixedScale)
        priced == SelectSeq(srcs, LAMBDA s : s.volume # None)
        total_volume == IntSum(SeqMap(LAMBDA s : s.volume[1], priced))
        volume_factor ==
            IF total_volume > 0
            THEN Max(0, Min((Log10Tenths(total_volume) * FixedScale) \div 70, FixedScale))
            ELSE (3 * FixedScale) \div 10
        confidence == (25 * count_factor + 30 * agreement
                       + 25 * accuracy_factor + 20 * volume_factor) \div 100
    IN  Max(0, Min(confidence, FixedScale))

weight_details(srcs, weights) ==
    SeqZip(LAMBDA s, w : [source_id |-> s.source_id, probability |-> Prob(s),
                          weight |-> w, accuracy_pct |-> s.accuracy_pct],
           srcs, weights)

Err == [tag |-> "Err"]

(* engine.rs 69-85 *)
single_source(s) ==
    [tag |-> "Ok",
     probability |-> Prob(s),
     confidence |-> (3 * FixedScale) \div 10,
     agreement |-> FixedScale,
     source_count |-> 1,
     weights |-> << [source_id |-> s.source_id, probability |-> Prob(s),
                     weight |-> One, accuracy_pct |-> s.accuracy_pct] >>,
     outliers |-> << >>]

(* engine.rs 87-139 *)
multi_source(srcs) ==
    LET weights == calculate_weights(srcs)
        consensus_prob == weighted_mean(srcs, weights)
        variance == weighted_variance(srcs, weights, consensus_prob)
        agreement == agreement_of(variance)
    IN  [tag |-> "Ok",
         probability |-> RatClamp(consensus_prob, Zero, One),
         confidence |-> calculate_confidence(srcs, agreement),
         agreement |-> agreement,
         source_count |-> Len(srcs),
         weights |-> weight_details(srcs, weights),
         outliers |-> detect_outliers(srcs, consensus_prob)]

(* mutant: the single-source shortcut is missing *)
calculate_consensus_no_shortcut(srcs) ==
    IF Len(srcs) = 0 THEN Err ELSE multi_source(srcs)

(* mutant: the empty-input check is missing *)
calculate_consensus_no_empty_check(srcs) ==
    IF Len(srcs) = 1 THEN single_source(srcs[1]) ELSE multi_source(srcs)

(* engine.rs 64-140 *)
calculate_consensus(srcs) ==
    IF Len(srcs) = 0 THEN Err
    ELSE IF Len(srcs) = 1 THEN single_source(srcs[1])
    ELSE multi_source(srcs)

-----------------------------------------------------------------------------
(* crates/workers/src: the tables the workers share, the three venue       *)
(* adapters and the movement detector.                                     *)
(*                                                                         *)
(* A table is the sequence of its rows in the order they were inserted; a  *)
(* generated id is the row's position.  Columns no worker reads back       *)
(* (external_url, metadata, created_at, updated_at) are left out.  A       *)
(* NUMERIC probability is an integer number of millionths.  Each task      *)
(* advances by one database statement at a time: between two statements    *)
(* of one task, any statement of another task may run.                     *)

(* the venues, named by the slug of their row in sources, which stands for *)
(* the row's id as well                                                    *)
Adapters == {"polymarket", "metaculus", "manifold"}

(* mutant: the slug carries no source tag *)
slug_prefix_none(a) == << >>

(* the prefix an adapter puts before slug_from_title(question) *)
slug_prefix(a) ==
    CASE a = "polymarket" -> << "p", "m", "-" >>
      [] a = "metaculus" -> << "m", "c", "-" >>
      [] a = "manifold" -> << "m", "f", "-" >>

(* Strings are sequences of characters, the characters being letters in    *)
(* both cases, the space and a punctuation mark.                           *)
to_lowercase(c) == CASE c = "A" -> "a" [] c = "B" -> "b" [] OTHER -> c
is_alphanumeric(c) == c \in {"a", "b", "A", "B"}

slug_char_keep_case(c) == IF is_alphanumeric(c) \/ c = " " THEN c ELSE " "

(* one step of .chars().map(..): every character that is neither           *)
(* alphanumeric nor a space becomes a space                                *)
slug_char(c) ==
    IF is_alphanumeric(to_lowercase(c)) \/ to_lowercase(c) = " "
    THEN to_lowercase(c) ELSE " "

(* .split_whitespace().collect::<Vec<_>>().join("-"): the characters of   *)
(* the words in order, and one hyphen for the first space of every run of  *)
(* spaces that has a word before it and a word after it                    *)
join_words(s) ==
    LET n == Len(s)
        last == CHOOSE j \in 0..n :
                   (j = 0 \/ s[j] # " ") /\ \A k \in (j + 1)..n : s[k] = " "
        kept(i) == s[i] # " " \/ (i > 1 /\ i < last /\ s[i - 1] # " ")
        at == SelectSeq([i \in 1..n |-> i], kept)
    IN  [k \in 1..Len(at) |-> IF s[at[k]] = " " THEN "-" ELSE s[at[k]]]

SlugMaxLen == 200

slug_from_title(title) ==
    LET joined == join_words([i \in 1..Len(title) |-> slug_char(title[i])])
    IN  SubSeq(joined, 1, Min(Len(joined), SlugMaxLen))

(* Utc::now(): a reading of the wall clock after the reading c.  Two       *)
(* readings are at least a database round trip apart, and the clock is     *)
(* not set back: a reading is later than every earlier one.                *)
utc_now(c) == c + 1

(* the position of the row of source_markets with this unique key, 0 if    *)
(* there is none                                                           *)
source_market_index(table, source_id, external_id) ==
    IF \E i \in 1..Len(table) :
          table[i].source_id = source_id /\ table[i].external_id = external_id
    THEN CHOOSE i \in 1..Len(table) :
          table[i].source_id = source_id /\ table[i].external_id = external_id
    ELSE 0

(* the status a row gets from its column default: the INSERT names none *)
DefaultStatus == "active"

(* mutant: a plain INSERT, without the ON CONFLICT clause *)
upsert_source_markets_no_conflict(table, source_id, external_id, title, prob, vol) ==
    Append(table,
        [id |-> Len(table) + 1, source_id |-> source_id,
         external_id |-> external_id, title |-> title,
         current_probability |-> Some(prob), volume |-> vol,
         market_id |-> None, status |-> DefaultStatus])

(* INSERT INTO source_markets .. ON CONFLICT (source_id, external_id)      *)
(* DO UPDATE SET title, current_probability, volume ..                     *)
upsert_source_markets(table, source_id, external_id, title, prob, vol) ==
    LET i == source_market_index(table, source_id, external_id)
    IN  IF i = 0
        THEN Append(table,
                 [id |-> Len(table) + 1, source_id |-> source_id,
                  external_id |-> external_id, title |-> title,
                  current_probability |-> Some(prob), volume |-> vol,
                  market_id |-> None, status |-> DefaultStatus])
        ELSE [table EXCEPT ![i].title = title,
                           ![i].current_probability = Some(prob),
                           ![i].volume = vol]

(* .. RETURNING id, read in the table after the statement *)
returning_id(table, source_id, external_id) ==
    table[source_market_index(table, source_id, external_id)].id

(* mutant: the row is stamped with the epoch instead of the bound time *)
odds_history_row_epoch(time, source_market_id, prob, vol) ==
    [time |-> 0, source_market_id |-> source_market_id,
     probability |-> prob, volume |-> vol]

(* the VALUES ($1, $2, $3, $4) of the odds_history insert *)
odds_history_row(time, source_market_id, prob, vol) ==
    [time |-> time, source_market_id |-> source_market_id,
     probability |-> prob, volume |-> vol]

(* the positions of the rows of one source market *)
rows_of(table, source_market_id) ==
    { i \in 1..Len(table) : table[i].source_market_id = source_market_id }

SetMax(S) == CHOOSE x \in S : \A y \in S : y <= x

(* mutant: an unchanged probability re-stamps the source market's latest   *)
(* row instead of adding one                                               *)
insert_odds_history_dedup(table, row) ==
    LET mine == rows_of(table, row.source_market_id)
    IN  IF mine # {} /\ table[SetMax(mine)].probability = row.probability
        THEN [table EXCEPT ![SetMax(mine)].time = row.time]
        ELSE Append(table, row)

(* mutant: ON CONFLICT (source_market_id) DO UPDATE: the source market's   *)
(* latest row is overwritten                                               *)
insert_odds_history_replace(table, row) ==
    LET mine == rows_of(table, row.source_market_id)
    IN  IF mine # {}
        THEN [table EXCEPT ![SetMax(mine)] = row]
        ELSE Append(table, row)

(* mutant: a probability equal to the source market's latest point is not  *)
(* recorded again                                                          *)
insert_odds_history_skip_unchanged(table, row) ==
    LET mine == rows_of(table, row.source_market_id)
    IN  IF mine # {} /\ table[SetMax(mine)].probability = row.probability
        THEN table
        ELSE Append(table, row)

(* INSERT INTO odds_history (time, source_market_id, probability, volume) *)
insert_odds_history(table, row) == Append(table, row)

(* the position of the row of markets with this unique slug, 0 if none *)
market_index(table, slug) ==
    IF \E i \in 1..Len(table) : table[i].slug = slug
    THEN CHOOSE i \in 1..Len(table) : table[i].slug = slug
    ELSE 0

(* mutant: a plain INSERT INTO markets, without the ON CONFLICT clause *)
upsert_markets_no_conflict(table, slug, title) ==
    Append(table, [id |-> Len(table) + 1, slug |-> slug, title |-> title,
                   status |-> DefaultStatus])

(* a variant with ON CONFLICT (slug) DO UPDATE SET title = EXCLUDED.title *)
upsert_markets_retitle(table, slug, title) ==
    IF market_index(table, slug) = 0
    THEN Append(table, [id |-> Len(table) + 1, slug |-> slug, title |-> title,
                        status |-> DefaultStatus])
    ELSE [table EXCEPT ![market_index(table, slug)].title = title]

(* INSERT INTO markets (slug, title, category_id) .. ON CONFLICT (slug)    *)
(* DO UPDATE SET updated_at = NOW(): an existing row keeps its columns     *)
upsert_markets(table, slug, title) ==
    IF market_index(table, slug) = 0
    THEN Append(table, [id |-> Len(table) + 1, slug |-> slug, title |-> title,
                        status |-> DefaultStatus])
    ELSE table

(* UPDATE source_markets SET market_id = $1 WHERE id = $2 *)
link_source_market(table, market_id, source_market_id) ==
    [i \in 1..Len(table) |->
        IF table[i].id = source_market_id
        THEN [table[i] EXCEPT !.market_id = Some(market_id)]
        ELSE table[i]]

(* ORDER BY time ASC of a set of positions of a table: the sequence of     *)
(* positions, earliest first, rows of equal time in insertion order        *)
RECURSIVE order_by_time(_, _)
order_by_time(table, S) ==
    IF S = {} THEN << >>
    ELSE LET first == CHOOSE i \in S : \A j \in S :
                         \/ table[i].time < table[j].time
                         \/ table[i].time = table[j].time /\ i <= j
         IN  << first >> \o order_by_time(table, S \ {first})

(* SELECT oh.probability FROM odds_history oh WHERE oh.source_market_id =  *)
(* sm.id ORDER BY oh.time DESC OFFSET 1 LIMIT 1                            *)
previous_probability(history, source_market_id) ==
    LET asc == order_by_time(history, rows_of(history, source_market_id))
    IN  IF Len(asc) < 2 THEN None
        ELSE Some(history[asc[Len(asc) - 1]].probability)

RECURSIVE movement_checks(_, _, _)
(* the rows the detector's query returns, from row i of source_markets on *)
movement_checks(table, history, i) ==
    IF i > Len(table) THEN << >>
    ELSE IF /\ table[i].status = "active"
            /\ table[i].current_probability # None
            /\ table[i].market_id # None
         THEN << [source_market_id |-> table[i].id,
                  market_id |-> table[i].market_id,
                  current_probability |-> table[i].current_probability,
                  previous_probability |->
                      previous_probability(history, table[i].id)] >>
              \o movement_checks(table, history, i + 1)
         ELSE movement_checks(table, history, i + 1)

(* const MOVEMENT_THRESHOLD: f64 = 0.05, the f64 nearest to 0.05 *)
MOVEMENT_THRESHOLD == F64FromRatio(5, 100)

(* p.to_string().parse::<f64>().ok(), of a NUMERIC column *)
parse_f64(p) == F64FromDecimal(p)

(* let current = ..unwrap_or(0.0) *)
current_of(market) ==
    IF market.current_probability = None THEN F64FromRatio(0, 1)
    ELSE parse_f64(market.current_probability[1])

(* let previous = ..unwrap_or(current) *)
previous_of(market) ==
    IF market.previous_probability = None THEN current_of(market)
    ELSE parse_f64(market.previous_probability[1])

(* let change = (current - previous).abs() *)
change_of(market) == F64AbsDiff(current_of(market), previous_of(market))

(* if change >= MOVEMENT_THRESHOLD { if let Some(market_id) = .. *)
is_movement(market) ==
    F64Ge(change_of(market), MOVEMENT_THRESHOLD) /\ market.market_id # None

(* the row of movement_events the detector inserts for market *)
movement_event(market, now) ==
    [source_market_id |-> market.source_market_id,
     market_id |-> market.market_id[1],
     probability_before |-> F64ToDecimal(previous_of(market), 6),
     probability_after |-> F64ToDecimal(current_of(market), 6),
     change_pct |-> F64ToDecimal(change_of(market), 4),
     detected_at |-> now]

(* an adapter between two records, and the detector between two passes *)
IdleAdapter ==
    [pc |-> "idle", source_market_id |-> 0, title |-> << >>, prob |-> 0,
     volume |-> None, time |-> 0]
IdleDetector == [pc |-> "idle", markets |-> << >>, next |-> 0, count |-> 0]

(* the consensus worker between two passes *)
IdleConsensus ==
    [pc |-> "idle", market_ids |-> << >>, next |-> 0, sources |-> << >>,
     row |-> << >>, count |-> 0]

(* an adapter between two passes of fetch_and_store.  `log` is what the    *)
(* last pass ended with: the warning of a status that is not a success,    *)
(* the error run_worker logs, or the count it logs.  `before` is kept for  *)
(* stating properties and read by no step: the venue's rows when the pass  *)
(* began.                                                                  *)
IdleFetch ==
    [pc |-> "idle", requests |-> 0, records |-> << >>, padding |-> 0,
     len |-> 0, next_url |-> FALSE, total |-> 0, log |-> "none",
     before |-> << << >>, << >> >>]

(* the workers at start-up over empty tables *)
InitWorkers ==
    /\ source_markets = << >>
    /\ odds_history = << >>
    /\ markets = << >>
    /\ movement_events = << >>
    /\ clock = 0
    /\ adapter = [a \in Adapters |-> IdleAdapter]
    /\ detector = IdleDetector
    /\ started = 0
    /\ consensus_snapshots = << >>
    /\ accuracy_records = << >>
    /\ consensus = IdleConsensus
    /\ fetch = [a \in Adapters |-> IdleFetch]

-----------------------------------------------------------------------------
(* The engine as a state machine: a list of inputs is drawn, then          *)
(* calculate_consensus is applied to it once.                              *)

MaxSources == 3

(* probabilities in hundredths: 0.00, 0.30 and 1.00 *)
ProbValues == {0, 30, 100}

(* (accuracy_pct, resolved_count, volume) of a venue: no record at all;    *)
(* enough resolutions but no accuracy; accuracy 0 with and without volume; *)
(* an accurate venue above and below the MIN_RESOLVED_FOR_ACCURACY gate.   *)
TrackRecords ==
    { [accuracy_pct |-> None,     resolved_count |-> 0,   volume |-> None],
      [accuracy_pct |-> None,     resolved_count |-> 100, volume |-> Some(0)],
      [accuracy_pct |-> Some(0),  resolved_count |-> 30,  volume |-> None],
      [accuracy_pct |-> Some(0),  resolved_count |-> 30,  volume |-> Some(100000000)],
      [accuracy_pct |-> Some(90), resolved_count |-> 100, volume |-> Some(100000000)],
      [accuracy_pct |-> Some(90), resolved_count |-> 29,  volume |-> Some(1)] }

SourceAttrs ==
    { [probability |-> p, accuracy_pct |-> t.accuracy_pct,
       resolved_count |-> t.resolved_count, volume |-> t.volume] :
      p \in ProbValues, t \in TrackRecords }

WithId(a, i) ==
    [source_id |-> i, probability |-> a.probability, accuracy_pct |-> a.accuracy_pct,
     resolved_count |-> a.resolved_count, volume |-> a.volume]

Pending == [tag |-> "Pending"]

(* no function of brier.rs has been called *)
NoCall == [fn |-> "none"]
BrierIdle == brier_call = NoCall /\ brier_returned = Pending

(* what a call returned *)
ReturnedValue(v) == [tag |-> "Returned", value |-> v]

InitEngine ==
    /\ \E n \in 0..MaxSources :
         \E attrs \in [1..n -> SourceAttrs] :
            sources = [i \in 1..n |-> WithId(attrs[i], i)]
    /\ result = Pending
    /\ InitWorkers
    /\ BrierIdle

CalculateConsensus ==
    /\ result = Pending
    /\ result' = calculate_consensus(sources)
    /\ UNCHANGED <<sources, workerVars, brierVars, consensusVars, fetch>>

NextEngine == CalculateConsensus

SpecEngine == InitEngine /\ [][NextEngine]_vars

-----------------------------------------------------------------------------
(* The workers as a state machine: main.rs polls the three adapters and    *)
(* the movement detector on one task, so their statements interleave at    *)
(* every await.                                                            *)

(* the number of venue records and detector passes taken up in a run *)
MaxStarted == 3

(* what a venue may report: the market's id at the venue, its question,    *)
(* and a probability written in decimal, given here in millionths, which   *)
(* the adapter holds as the f64 parsed from it.  The venues move by 0.05   *)
(* from 0.10, by 0.05 from 0.50, and by 0.40.                              *)
ExternalIds == {"q1"}
Titles == { << "A", "?" >> }
JsonProbabilities(a) ==
    CASE a = "polymarket" -> {100000, 150000}
      [] a = "metaculus" -> {500000, 550000}
      [] a = "manifold" -> {300000, 700000}
Quotes(a) ==
    { [external_id |-> e, title |-> t, probability |-> F64FromDecimal(p),
       volume |-> None] :
      e \in ExternalIds, t \in Titles, p \in JsonProbabilities(a) }

Init ==
    /\ sources = << >>
    /\ result = Pending
    /\ InitWorkers
    /\ BrierIdle

(* process_market takes up the record m and upsert_source_market runs its  *)
(* first two statements: the source's id is looked up (the sources table   *)
(* never changes) and the source_markets row is upserted                   *)
UpsertSourceMarket(a, m) ==
    /\ adapter[a].pc = "idle"
    /\ started < MaxStarted
    /\ started' = started + 1
    /\ LET prob == F64ToDecimal(m.probability, 6)
           table == upsert_source_markets(source_markets, a, m.external_id,
                                          m.title, prob, m.volume)
       IN  /\ source_markets' = table
           /\ adapter' = [adapter EXCEPT ![a] =
                 [IdleAdapter EXCEPT
                    !.pc = "bind_time",
                    !.source_market_id = returning_id(table, a, m.external_id),
                    !.title = m.title, !.prob = prob, !.volume = m.volume]]
    /\ UNCHANGED <<odds_history, markets, movement_events, clock, detector,
                   engineVars, brierVars, consensusVars, fetch>>

(* the upsert has answered: the odds_history insert is built, which reads  *)
(* the clock for its time column, and is sent                              *)
BindOddsTime(a) ==
    /\ adapter[a].pc = "bind_time"
    /\ clock' = utc_now(clock)
    /\ adapter' = [adapter EXCEPT ![a].pc = "insert_odds",
                                  ![a].time = utc_now(clock)]
    /\ UNCHANGED <<tables, detector, started, engineVars, brierVars, consensusVars, fetch>>

(* the database runs the odds_history insert; upsert_source_market returns *)
InsertOddsHistory(a) ==
    /\ adapter[a].pc = "insert_odds"
    /\ odds_history' = insert_odds_history(odds_history,
           odds_history_row(adapter[a].time, adapter[a].source_market_id,
                            adapter[a].prob, adapter[a].volume))
    /\ adapter' = [adapter EXCEPT ![a].pc = "ensure", ![a].prob = 0,
                                  ![a].volume = None, ![a].time = 0]
    /\ UNCHANGED <<source_markets, markets, movement_events, clock, detector,
                   started, engineVars, brierVars, consensusVars, fetch>>

(* the market_id ensure_unified_market(source_market_id, title, slug, None) *)
(* returns when adapter a calls it over the given tables: the source       *)
(* market's, if it has one, else the id of the markets row with the slug   *)
(* after the insert                                                        *)
ensure_unified_market_id(sm_table, market_table, a, source_market_id, title) ==
    LET existing == sm_table[source_market_id].market_id
        slug == slug_prefix(a) \o slug_from_title(title)
        table == upsert_markets(market_table, slug, title)
    IN  IF existing # None THEN existing[1]
        ELSE table[market_index(table, slug)].id

(* what the call adapter a is about to make returns *)
ensure_unified_market_returns(a) ==
    ensure_unified_market_id(source_markets, markets, a,
                             adapter[a].source_market_id, adapter[a].title)

(* mutant: without the early return, the source market is linked to the    *)
(* market of the slug on every call                                        *)
EnsureUnifiedMarket_relinks(a) ==
    /\ adapter[a].pc = "ensure"
    /\ LET slug == slug_prefix(a) \o slug_from_title(adapter[a].title)
           table == upsert_markets(markets, slug, adapter[a].title)
       IN  /\ markets' = table
           /\ source_markets' = link_source_market(source_markets,
                  table[market_index(table, slug)].id,
                  adapter[a].source_market_id)
    /\ adapter' = [adapter EXCEPT ![a] = IdleAdapter]
    /\ UNCHANGED <<odds_history, movement_events, clock, detector, started,
                   engineVars, brierVars, consensusVars, fetch>>

(* ensure_unified_market: a source market that has a market already keeps  *)
(* it; otherwise the markets row is created or found by its slug           *)
(* (category_slug is None, so no category is looked up) and the source     *)
(* market is linked to it.  The rows it reads and writes are touched by    *)
(* this adapter alone (the slug carries the adapter's prefix), so its      *)
(* statements are taken in one step.  process_market returns.              *)
EnsureUnifiedMarket(a) ==
    /\ adapter[a].pc = "ensure"
    /\ LET existing == source_markets[adapter[a].source_market_id].market_id
           slug == slug_prefix(a) \o slug_from_title(adapter[a].title)
           table == upsert_markets(markets, slug, adapter[a].title)
           market_id == table[market_index(table, slug)].id
       IN  IF existing # None
           THEN UNCHANGED <<source_markets, markets>>
           ELSE /\ markets' = table
                /\ source_markets' = link_source_market(source_markets,
                       market_id, adapter[a].source_market_id)
    /\ adapter' = [adapter EXCEPT ![a] = IdleAdapter]
    /\ UNCHANGED <<odds_history, movement_events, clock, detector, started,
                   engineVars, brierVars, consensusVars, fetch>>

(* detect_movements: the query over source_markets and odds_history *)
DetectQuery ==
    /\ detector.pc = "idle"
    /\ started < MaxStarted
    /\ started' = started + 1
    /\ LET rows == movement_checks(source_markets, odds_history, 1)
       IN  detector' = IF rows = << >> THEN IdleDetector
                       ELSE [pc |-> "loop", markets |-> rows, next |-> 1,
                             count |-> 0]
    /\ UNCHANGED <<tables, clock, adapter, engineVars, brierVars, consensusVars, fetch>>

(* detect_movements: one turn of `for market in &markets`, which inserts   *)
(* a movement_events row stamped with a reading of the clock, or nothing;  *)
(* after the last row the pass returns                                     *)
DetectRow ==
    /\ detector.pc = "loop"
    /\ LET market == detector.markets[detector.next]
           moved == is_movement(market)
       IN  /\ IF moved
              THEN /\ clock' = utc_now(clock)
                   /\ movement_events' = Append(movement_events,
                          movement_event(market, utc_now(clock)))
              ELSE UNCHANGED <<clock, movement_events>>
           /\ detector' =
                 IF detector.next = Len(detector.markets) THEN IdleDetector
                 ELSE [detector EXCEPT !.next = detector.next + 1,
                          !.count = IF moved THEN detector.count + 1
                                    ELSE detector.count]
    /\ UNCHANGED <<source_markets, odds_history, markets, adapter, started,
                   engineVars, brierVars, consensusVars, fetch>>

Next ==
    \/ \E a \in Adapters : \E m \in Quotes(a) : UpsertSourceMarket(a, m)
    \/ \E a \in Adapters : BindOddsTime(a)
    \/ \E a \in Adapters : InsertOddsHistory(a)
    \/ \E a \in Adapters : EnsureUnifiedMarket(a)
    \/ DetectQuery
    \/ DetectRow

Spec == Init /\ [][Next]_vars

(* the same tasks from the state the run above is in when manifold's       *)
(* first record has been ingested, whatever its probability: there is a    *)
(* linked source market with one odds_history point                        *)
InitDetector ==
    /\ sources = << >>
    /\ result = Pending
    /\ BrierIdle
    /\ \E p \in JsonProbabilities("manifold") :
          /\ source_markets =
               << [id |-> 1, source_id |-> "manifold", external_id |-> "q1",
                   title |-> << "A", "?" >>, current_probability |-> Some(p),
                   volume |-> None, market_id |-> Some(1),
                   status |-> DefaultStatus] >>
          /\ odds_history = << odds_history_row(1, 1, p, None) >>
    /\ markets =
         << [id |-> 1, slug |-> << "m", "f", "-", "a" >>, title |-> << "A", "?" >>,
             status |-> DefaultStatus] >>
    /\ movement_events = << >>
    /\ clock = 1
    /\ adapter = [a \in Adapters |-> IdleAdapter]
    /\ detector = IdleDetector
    /\ started = 0
    /\ consensus_snapshots = << >>
    /\ accuracy_records = << >>
    /\ consensus = IdleConsensus
    /\ fetch = [a \in Adapters |-> IdleFetch]

SpecDetector == InitDetector /\ [][Next]_vars

(* detect_movements: the insert of a movement_events row returns an error, *)
(* which `?` returns from inside the `for`: the pass is over, and          *)
(* run_movement_detector logs the error and sleeps                         *)
DetectRowFails ==
    /\ detector.pc = "loop"
    /\ is_movement(detector.markets[detector.next])
    /\ clock' = utc_now(clock)
    /\ detector' = IdleDetector
    /\ UNCHANGED <<tables, adapter, started, engineVars, brierVars,
                   consensusVars, fetch>>

NextDetectorFails == Next \/ DetectRowFails

SpecDetectorFails == InitDetector /\ [][NextDetectorFails]_vars

-----------------------------------------------------------------------------
(* Ingestion alone, over a feed that varies what identifies a record: one  *)
(* venue reports two markets, under titles that differ in case and         *)
(* punctuation only ("A?", "a") or in their words ("b"), and a second      *)
(* venue reports one of these titles as well.  The detector is left out:   *)
(* it writes to no table the adapters read.                                *)

IngestExternalIds(a) ==
    IF a = "polymarket" THEN {"q1", "q2"} ELSE {"q1"}
IngestTitles(a) ==
    CASE a = "polymarket" -> { << "A", "?", "b" >>, << "a", "b" >>, << "A", "b", "?" >> }
      [] a = "metaculus" -> { << "A", "?", "b" >> }
      [] a = "manifold" -> { << "A", "b", "?" >> }
IngestQuotes(a) ==
    { [external_id |-> e, title |-> t, probability |-> F64FromDecimal(p),
       volume |-> None] :
      e \in IngestExternalIds(a), t \in IngestTitles(a),
      p \in {500000} }

NextIngest ==
    \/ \E a \in Adapters : \E m \in IngestQuotes(a) : UpsertSourceMarket(a, m)
    \/ \E a \in Adapters : BindOddsTime(a)
    \/ \E a \in Adapters : InsertOddsHistory(a)
    \/ \E a \in Adapters : EnsureUnifiedMarket(a)

SpecIngest == Init /\ [][NextIngest]_vars

-----------------------------------------------------------------------------
(* crates/workers/src/sources: a pass of fetch_and_store over what the     *)
(* venue answers.  A record of a page is the fields process_market reads.  *)
(* A string that is to be parsed as a number is the number in millionths,  *)
(* or None where it does not parse; a JSON number is the number in         *)
(* millionths; outcome_prices is the Vec<String> serde_json reads from     *)
(* the field, empty where it reads none.  A page is its records that are   *)
(* written out, followed by `padding` more records without a question or   *)
(* title: process_market returns Ok(()) from these before it awaits        *)
(* anything.                                                               *)

(* let external_id = condition_id.or(question_id).unwrap_or_default() *)
polymarket_external_id(r) ==
    IF r.condition_id # None THEN r.condition_id[1]
    ELSE UnwrapOr(r.question_id, "")

(* the early returns of process_market and process_question: the record    *)
(* is left without a statement being sent                                  *)
returns_at_once(a, r) ==
    CASE a = "polymarket" ->
            r.question = None \/ polymarket_external_id(r) = ""
      [] a = "metaculus" -> r.title = None
      [] a = "manifold" ->
            \/ r.outcome_type # Some("BINARY")
            \/ r.is_resolved = Some(TRUE)
            \/ r.question = None

(* the arguments process_market and process_question call                  *)
(* upsert_source_market with, for a record they do not return from         *)
quote_of(a, r) ==
    CASE a = "polymarket" ->
            LET first == IF r.outcome_prices = None THEN None
                         ELSE IF r.outcome_prices[1] = << >> THEN None
                         ELSE r.outcome_prices[1][1]
            IN  [external_id |-> polymarket_external_id(r), title |-> r.question[1],
                 probability |-> F64FromDecimal(UnwrapOr(first, 500000)),
                 volume |-> None]
      [] a = "metaculus" ->
            LET q2 == IF r.q2 # None THEN r.q2 ELSE r.center
            IN  [external_id |-> r.id, title |-> r.title[1],
                 probability |-> F64FromDecimal(UnwrapOr(q2, 500000)),
                 volume |-> None]
      [] a = "manifold" ->
            [external_id |-> r.id, title |-> r.question[1],
             probability |-> F64FromDecimal(UnwrapOr(r.probability, 500000)),
             volume |-> None]

(* let limit = 100 (polymarket) and `for _ in 0..5` (metaculus) *)
PageLimit == 100
MaxMetaculusPages == 5

(* the position in records of the first record process_market does not    *)
(* return from at once, 0 if there is none                                 *)
first_quoted(a, records) ==
    IF \E i \in 1..Len(records) : ~returns_at_once(a, records[i])
    THEN CHOOSE i \in 1..Len(records) :
            /\ ~returns_at_once(a, records[i])
            /\ \A j \in 1..(i - 1) : returns_at_once(a, records[j])
    ELSE 0

(* total after process_market has returned Ok(()) for the record that was  *)
(* being processed, if one was                                             *)
total_of(f) == IF f.pc = "processing" THEN f.total + 1 ELSE f.total

-----------------------------------------------------------------------------
(* The adapters over pages of a venue: run_worker calls fetch_and_store,   *)
(* which requests pages and hands their records to process_market one      *)
(* after the other.  Between two awaits a task runs alone, so the records  *)
(* process_market returns from at once are passed over within the step     *)
(* that follows them.  A database statement may fail.                      *)

(* the requests of one pass the model follows *)
MaxRequests == 6

PolymarketRecord(id, price, closed) ==
    [question |-> Some(<< "A", "?" >>), condition_id |-> id, question_id |-> None,
     outcome_prices |-> Some(<< Some(price) >>), closed |-> Some(closed)]
MetaculusRecord(id, status, type, q2) ==
    [id |-> id, title |-> Some(<< "A", "?" >>), status |-> Some(status),
     question_type |-> Some(type), q2 |-> Some(q2), center |-> None]
ManifoldRecord(id, type, resolved, probability) ==
    [id |-> id, question |-> Some(<< "A", "?" >>), outcome_type |-> Some(type),
     is_resolved |-> Some(resolved), probability |-> probability]

(* what a venue may put on a page: an open binary market; a market it      *)
(* marks closed, resolved or not binary, under an id of its own; a price   *)
(* above 1; a record without an id                                         *)
Records(a) ==
    CASE a = "polymarket" ->
            { PolymarketRecord(Some("q1"), 100000, FALSE),
              PolymarketRecord(Some("q2"), 150000, TRUE),
              PolymarketRecord(Some("q1"), 1500000, FALSE),
              PolymarketRecord(None, 100000, FALSE) }
      [] a = "metaculus" ->
            { MetaculusRecord("1", "open", "binary", 500000),
              MetaculusRecord("2", "resolved", "binary", 550000),
              MetaculusRecord("3", "open", "numeric", 550000) }
      [] a = "manifold" ->
            { ManifoldRecord("q1", "BINARY", FALSE, Some(300000)),
              ManifoldRecord("q2", "BINARY", TRUE, Some(700000)),
              ManifoldRecord("q3", "MULTIPLE_CHOICE", FALSE, None) }

(* the payload marks the record closed, resolved or not binary *)
Marked(a, r) ==
    CASE a = "polymarket" -> r.closed = Some(TRUE)
      [] a = "metaculus" ->
            r.status \in {Some("resolved"), Some("closed")}
               \/ r.question_type # Some("binary")
      [] a = "manifold" ->
            r.is_resolved = Some(TRUE) \/ r.outcome_type # Some("BINARY")

(* a JSON value serde cannot read as the record: a required field (the id  *)
(* of a manifold or metaculus record) is missing or a field has another    *)
(* type                                                                    *)
Malformed == [malformed |-> TRUE]

(* the answers to a request: the request fails; a status that is not a     *)
(* success; a page of at most one entry written out, or for manifold of    *)
(* two, which for polymarket may be filled up to the limit, and for        *)
(* metaculus may name a next page                                          *)
Pages(a) ==
    { [kind |-> k, records |-> << >>, padding |-> 0, next_url |-> FALSE] :
      k \in {"error", "status"} }
    \cup
    { [kind |-> "ok", records |-> rs,
        padding |-> IF full THEN PageLimit - Len(rs) ELSE 0, next_url |-> n] :
      rs \in { << >> } \cup { << r >> : r \in Records(a) \cup {Malformed} }
                \cup { << q, r >> : q, r \in { x \in Records(a) \cup {Malformed} :
                                                 a = "manifold" } },
      full \in IF a = "polymarket" THEN BOOLEAN ELSE {FALSE},
      n \in IF a = "metaculus" THEN BOOLEAN ELSE {FALSE} }

(* the rows of source_markets of venue a and the rows of odds_history of   *)
(* its source markets                                                      *)
venue_rows(a, sm_table, oh_table) ==
    << SelectSeq(sm_table, LAMBDA row : row.source_id = a),
       SelectSeq(oh_table,
                 LAMBDA row : sm_table[row.source_market_id].source_id = a) >>

(* run_worker: the sleep is over and fetch_and_store sends its first       *)
(* request                                                                 *)
StartPass(a) ==
    /\ fetch[a].pc = "idle"
    /\ started < MaxStarted
    /\ started' = started + 1
    /\ fetch' = [fetch EXCEPT ![a] =
          [IdleFetch EXCEPT !.pc = "request", !.requests = 1,
                            !.before = venue_rows(a, source_markets, odds_history)]]
    /\ UNCHANGED <<tables, clock, adapter, detector, engineVars, brierVars,
                   consensusVars>>

(* a variant in which run_worker returns the error of fetch_and_store with *)
(* `?` and the task ends                                                   *)
pass_ended_returns(line) ==
    [IdleFetch EXCEPT !.pc = IF line = "error" THEN "returned" ELSE "idle",
                      !.log = line]

(* the pass is over: fetch_and_store has logged line, or returned what     *)
(* run_worker logs as line, and run_worker sleeps                          *)
pass_ended(line) == [IdleFetch EXCEPT !.log = line]

(* send() resolves: `?` returns its error, a status that is not a success  *)
(* is logged and ends the pass, and on a success the body is still to be   *)
(* read                                                                    *)
Response(a, page) ==
    /\ fetch[a].pc = "request"
    /\ started + Len(page.records) <= MaxStarted
    /\ started' = started + Len(page.records)
    /\ fetch' = [fetch EXCEPT ![a] =
          CASE page.kind = "error" -> pass_ended("error")
            [] page.kind = "status" -> pass_ended("status")
            [] page.kind = "ok" ->
                 [@ EXCEPT !.pc = "body", !.records = page.records,
                           !.padding = page.padding,
                           !.len = Len(page.records) + page.padding,
                           !.next_url = page.next_url]]
    /\ UNCHANGED <<tables, clock, adapter, detector, engineVars, brierVars,
                   consensusVars>>

(* response.json() resolves: one entry that does not deserialize fails the *)
(* whole Vec, and `?` returns the error from fetch_and_store; the empty    *)
(* page ends polymarket's pass; otherwise the `for` over the records       *)
(* begins                                                                  *)
ReadBody(a) ==
    /\ fetch[a].pc = "body"
    /\ fetch' = [fetch EXCEPT ![a] =
          IF \E i \in 1..Len(@.records) : @.records[i] = Malformed
          THEN pass_ended("error")
          ELSE IF a = "polymarket" /\ @.len = 0
          THEN pass_ended("ingested")
          ELSE [@ EXCEPT !.pc = "records"]]
    /\ UNCHANGED <<workerVars, engineVars, brierVars, consensusVars>>

(* the `for` is at a record, or process_market has just returned Ok(()) *)
AtRecords(a) ==
    /\ fetch[a].pc \in {"records", "processing"}
    /\ adapter[a].pc = "idle"

(* the records after position k *)
rest_of(records, k) == SubSeq(records, k + 1, Len(records))

(* the `for` reaches a record process_market does not return from at      *)
(* once, and upsert_source_market runs its first two statements for it     *)
ProcessRecord(a) ==
    /\ AtRecords(a)
    /\ first_quoted(a, fetch[a].records) > 0
    /\ LET k == first_quoted(a, fetch[a].records)
           m == quote_of(a, fetch[a].records[k])
           prob == F64ToDecimal(m.probability, 6)
           table == upsert_source_markets(source_markets, a, m.external_id,
                                          m.title, prob, m.volume)
       IN  /\ source_markets' = table
           /\ adapter' = [adapter EXCEPT ![a] =
                 [IdleAdapter EXCEPT
                    !.pc = "bind_time",
                    !.source_market_id = returning_id(table, a, m.external_id),
                    !.title = m.title, !.prob = prob, !.volume = m.volume]]
           /\ fetch' = [fetch EXCEPT ![a].pc = "processing",
                                     ![a].total = total_of(fetch[a]) + k - 1,
                                     ![a].records = rest_of(fetch[a].records, k)]
    /\ UNCHANGED <<odds_history, markets, movement_events, clock, detector,
                   started, engineVars, brierVars, consensusVars>>

(* the same record, when the lookup of the source or the upsert returns an *)
(* error: `?` returns it before anything is written, fetch_and_store logs  *)
(* it and goes on                                                          *)
UpsertFails(a) ==
    /\ AtRecords(a)
    /\ first_quoted(a, fetch[a].records) > 0
    /\ LET k == first_quoted(a, fetch[a].records)
       IN  fetch' = [fetch EXCEPT ![a].pc = "records",
                                  ![a].total = total_of(fetch[a]) + k - 1,
                                  ![a].records = rest_of(fetch[a].records, k)]
    /\ UNCHANGED <<workerVars, engineVars, brierVars, consensusVars>>

(* a variant in which the error of the insert is returned from             *)
(* fetch_and_store                                                         *)
InsertOddsHistoryFails_ends_pass(a) ==
    /\ fetch[a].pc = "processing"
    /\ adapter[a].pc = "insert_odds"
    /\ adapter' = [adapter EXCEPT ![a] = IdleAdapter]
    /\ fetch' = [fetch EXCEPT ![a] = pass_ended("error")]
    /\ UNCHANGED <<tables, clock, detector, started, engineVars, brierVars,
                   consensusVars>>

(* the odds_history insert returns an error: `?` returns it from           *)
(* upsert_source_market and from process_market; the upsert of             *)
(* source_markets ran as a statement of its own on the pool                *)
InsertOddsHistoryFails(a) ==
    /\ fetch[a].pc = "processing"
    /\ adapter[a].pc = "insert_odds"
    /\ adapter' = [adapter EXCEPT ![a] = IdleAdapter]
    /\ fetch' = [fetch EXCEPT ![a].pc = "records"]
    /\ UNCHANGED <<tables, clock, detector, started, engineVars, brierVars,
                   consensusVars>>

(* a statement of ensure_unified_market returns an error, which `?`        *)
(* returns from process_market: the SELECT of the link or the INSERT into  *)
(* markets, with nothing written, or the UPDATE that links the source      *)
(* market, with the markets row written                                    *)
EnsureFails(a, statement) ==
    /\ fetch[a].pc = "processing"
    /\ adapter[a].pc = "ensure"
    /\ LET existing == source_markets[adapter[a].source_market_id].market_id
           slug == slug_prefix(a) \o slug_from_title(adapter[a].title)
       IN  IF statement = "select" \/ existing # None
           THEN statement = "select" /\ UNCHANGED markets
           ELSE markets' = IF statement = "update"
                           THEN upsert_markets(markets, slug, adapter[a].title)
                           ELSE markets
    /\ adapter' = [adapter EXCEPT ![a] = IdleAdapter]
    /\ fetch' = [fetch EXCEPT ![a].pc = "records"]
    /\ UNCHANGED <<source_markets, odds_history, movement_events, clock,
                   detector, started, engineVars, brierVars, consensusVars>>

(* fetch_and_store after the last record process_market awaits on: the     *)
(* rest of the page is passed over, and the pass either asks for another   *)
(* page after its pause or returns Ok(total)                               *)
more_pages(a, f) ==
    CASE a = "polymarket" -> ~(f.len < PageLimit)
      [] a = "metaculus" -> f.next_url /\ f.requests < MaxMetaculusPages
      [] a = "manifold" -> FALSE

ContinuePass(a) ==
    /\ AtRecords(a)
    /\ first_quoted(a, fetch[a].records) = 0
    /\ more_pages(a, fetch[a]) => fetch[a].requests < MaxRequests
    /\ fetch' = [fetch EXCEPT ![a] =
          IF more_pages(a, @)
          THEN [IdleFetch EXCEPT
                  !.pc = "request", !.requests = fetch[a].requests + 1,
                  !.total = total_of(fetch[a]) + Len(fetch[a].records)
                               + fetch[a].padding,
                  !.before = fetch[a].before]
          ELSE pass_ended("ingested")]
    /\ UNCHANGED <<workerVars, engineVars, brierVars, consensusVars>>

NextFetch ==
    \/ \E a \in Adapters : StartPass(a)
    \/ \E a \in Adapters : \E page \in Pages(a) : Response(a, page)
    \/ \E a \in Adapters : ReadBody(a)
    \/ \E a \in Adapters : ProcessRecord(a)
    \/ \E a \in Adapters : UpsertFails(a)
    \/ \E a \in Adapters : BindOddsTime(a)
    \/ \E a \in Adapters : InsertOddsHistory(a)
    \/ \E a \in Adapters : InsertOddsHistoryFails(a)
    \/ \E a \in Adapters : EnsureUnifiedMarket(a)
    \/ \E a \in Adapters : \E statement \in {"select", "insert", "update"} :
          EnsureFails(a, statement)
    \/ \E a \in Adapters : ContinuePass(a)

SpecFetch == Init /\ [][NextFetch]_vars

(* the passes of two venues, one that pages and one whose single page      *)
(* holds a batch of two records                                            *)
BatchAdapters == {"polymarket", "manifold"}

NextBatch ==
    \/ \E a \in BatchAdapters : StartPass(a)
    \/ \E a \in BatchAdapters : \E page \in Pages(a) : Response(a, page)
    \/ \E a \in BatchAdapters : ReadBody(a)
    \/ \E a \in BatchAdapters : ProcessRecord(a)
    \/ \E a \in BatchAdapters : UpsertFails(a)
    \/ \E a \in BatchAdapters : BindOddsTime(a)
    \/ \E a \in BatchAdapters : InsertOddsHistory(a)
    \/ \E a \in BatchAdapters : InsertOddsHistoryFails(a)
    \/ \E a \in BatchAdapters : EnsureUnifiedMarket(a)
    \/ \E a \in BatchAdapters : \E statement \in {"select", "insert", "update"} :
          EnsureFails(a, statement)
    \/ \E a \in BatchAdapters : ContinuePass(a)

SpecBatch == Init /\ [][NextBatch]_vars

-----------------------------------------------------------------------------
(* crates/workers/src/consensus_worker.rs.  The worker hands the engine    *)
(* what it reads from source_markets and accuracy_records and appends the  *)
(* result to consensus_snapshots.  A row of accuracy_records is            *)
(* (source_id, category_id, total_resolved, accuracy_pct), accuracy_pct    *)
(* in whole percent.  The engine above takes probabilities in hundredths:  *)
(* the venues of this part quote in whole hundredths.                      *)

(* mutant: the status of the market is not looked at *)
active_market_ids_any_status(market_table, sm_table) ==
    LET quoted(id) == \E k \in 1..Len(sm_table) :
                         /\ sm_table[k].market_id = Some(id)
                         /\ sm_table[k].current_probability # None
    IN  SelectSeq([i \in 1..Len(market_table) |-> market_table[i].id], quoted)

(* SELECT DISTINCT m.id FROM markets m JOIN source_markets sm ON            *)
(* sm.market_id = m.id WHERE m.status = 'active' AND                       *)
(* sm.current_probability IS NOT NULL GROUP BY m.id HAVING COUNT(sm.id)    *)
(* >= 1: every such market once, taken here in the order of their rows     *)
active_market_ids(market_table, sm_table) ==
    LET quoted(id) == /\ market_table[id].status = "active"
                      /\ \E k \in 1..Len(sm_table) :
                            /\ sm_table[k].market_id = Some(id)
                            /\ sm_table[k].current_probability # None
    IN  SelectSeq([i \in 1..Len(market_table) |-> market_table[i].id], quoted)

(* the rows of accuracy_records of one source *)
accuracy_of(ar_table, source_id) ==
    SelectSeq(ar_table, LAMBDA r : r.source_id = source_id)

(* .. JOIN sources s ON sm.source_id = s.id LEFT JOIN accuracy_records ar  *)
(* ON ar.source_id = s.id: the rows one source_markets row sm is joined    *)
(* to, one for every accuracy record of its source, and one with NULLs if  *)
(* the source has none                                                     *)
joined_rows(sm, ar_table) ==
    LET ars == accuracy_of(ar_table, sm.source_id)
    IN  IF ars = << >>
        THEN << [source_slug |-> sm.source_id,
                 probability |-> sm.current_probability[1],
                 volume |-> sm.volume, accuracy_pct |-> None,
                 total_resolved |-> None] >>
        ELSE [j \in 1..Len(ars) |->
                 [source_slug |-> sm.source_id,
                  probability |-> sm.current_probability[1],
                  volume |-> sm.volume, accuracy_pct |-> ars[j].accuracy_pct,
                  total_resolved |-> Some(ars[j].total_resolved)]]

RECURSIVE source_data_from(_, _, _, _)
(* mutant: LIMIT 1, the first joined row only *)
source_data_first(sm_table, ar_table, market_id) ==
    LET all == source_data_from(sm_table, ar_table, market_id, 1)
    IN  IF all = << >> THEN all ELSE << all[1] >>

(* the rows of the query of compute_market_consensus, from row k of        *)
(* source_markets on                                                       *)
source_data_from(sm_table, ar_table, market_id, k) ==
    IF k > Len(sm_table) THEN << >>
    ELSE (IF /\ sm_table[k].market_id = Some(market_id)
             /\ sm_table[k].current_probability # None
          THEN joined_rows(sm_table[k], ar_table)
          ELSE << >>)
         \o source_data_from(sm_table, ar_table, market_id, k + 1)

(* SELECT .. FROM source_markets sm JOIN sources s .. LEFT JOIN            *)
(* accuracy_records ar .. WHERE sm.market_id = $1 AND                      *)
(* sm.current_probability IS NOT NULL                                      *)
source_data(sm_table, ar_table, market_id) ==
    source_data_from(sm_table, ar_table, market_id, 1)

(* the SourceInput built from one row s of the query *)
source_input(s) ==
    [source_id |-> s.source_slug,
     probability |-> s.probability \div 10000,
     accuracy_pct |-> s.accuracy_pct,
     resolved_count |-> UnwrapOr(s.total_resolved, 0),
     volume |-> s.volume]

(* format!("{:.6}", x) of a number x >= 0, in millionths, rounded to the   *)
(* nearest (x.den < 2^21)                                                  *)
RatToMicro(x) ==
    LET q1 == (x.num * 1000) \div x.den
        r1 == (x.num * 1000) % x.den
        q2 == (r1 * 1000) \div x.den
        r2 == (r1 * 1000) % x.den
    IN  q1 * 1000 + q2 + (IF 2 * r2 >= x.den THEN 1 ELSE 0)

(* the VALUES ($1, .., $8) of the consensus_snapshots insert; confidence   *)
(* and agreement have four decimals, which is the unit 1/FixedScale        *)
snapshot_row(time, market_id, res) ==
    [time |-> time, market_id |-> market_id,
     consensus_probability |-> RatToMicro(res.probability),
     confidence_score |-> res.confidence,
     source_count |-> res.source_count,
     agreement_score |-> res.agreement,
     weights |-> res.weights,
     outlier_sources |-> res.outliers]

-----------------------------------------------------------------------------
(* The consensus worker next to ingestion.  The run starts when the        *)
(* adapters have been through their feeds once: polymarket has ingested    *)
(* q1 and q2 under one title, so that one market has two source markets,   *)
(* and manifold has ingested q1.  From then on polymarket re-quotes q1 (at *)
(* 0.10 or 0.15) and q2 (at 0.50 or 0.55), the consensus worker makes its  *)
(* passes, and markets are resolved or canceled.  Every database statement *)
(* succeeds.                                                               *)

ConsensusAdapters == {"polymarket"}
ConsensusQuotes(a) ==
    { [external_id |-> e, title |-> t, probability |-> F64FromDecimal(p),
       volume |-> None] :
      e \in {"q1"}, t \in Titles, p \in JsonProbabilities("polymarket") }
    \cup
    { [external_id |-> e, title |-> t, probability |-> F64FromDecimal(p),
       volume |-> None] :
      e \in {"q2"}, t \in Titles, p \in JsonProbabilities("metaculus") }

(* accuracy_records, which the workers only read: empty; the               *)
(* category-agnostic record of polymarket; that and a per-category one     *)
AccuracyTables ==
    LET agnostic == [source_id |-> "polymarket", category_id |-> None,
                     total_resolved |-> 40, accuracy_pct |-> Some(90)]
        politics == [source_id |-> "polymarket", category_id |-> Some("politics"),
                     total_resolved |-> 20, accuracy_pct |-> Some(80)]
    IN  { << >>, << agnostic >>, << agnostic, politics >> }

InitConsensus ==
    /\ sources = << >>
    /\ result = Pending
    /\ BrierIdle
    /\ source_markets =
         << [id |-> 1, source_id |-> "polymarket", external_id |-> "q1",
             title |-> << "A", "?" >>, current_probability |-> Some(100000),
             volume |-> None, market_id |-> Some(1), status |-> DefaultStatus],
            [id |-> 2, source_id |-> "polymarket", external_id |-> "q2",
             title |-> << "A", "?" >>, current_probability |-> Some(500000),
             volume |-> None, market_id |-> Some(1), status |-> DefaultStatus],
            [id |-> 3, source_id |-> "manifold", external_id |-> "q1",
             title |-> << "A", "?" >>, current_probability |-> Some(300000),
             volume |-> None, market_id |-> Some(2), status |-> DefaultStatus] >>
    /\ odds_history =
         << odds_history_row(1, 1, 100000, None),
            odds_history_row(2, 2, 500000, None),
            odds_history_row(3, 3, 300000, None) >>
    /\ markets =
         << [id |-> 1, slug |-> << "p", "m", "-", "a" >>, title |-> << "A", "?" >>,
             status |-> DefaultStatus],
            [id |-> 2, slug |-> << "m", "f", "-", "a" >>, title |-> << "A", "?" >>,
             status |-> DefaultStatus] >>
    /\ movement_events = << >>
    /\ clock = 3
    /\ adapter = [a \in Adapters |-> IdleAdapter]
    /\ detector = IdleDetector
    /\ started = 0
    /\ consensus_snapshots = << >>
    /\ accuracy_records \in AccuracyTables
    /\ consensus = IdleConsensus
    /\ fetch = [a \in Adapters |-> IdleFetch]

(* compute_all_consensus: the query that selects the markets of the pass;  *)
(* with no market selected the pass returns                                *)
ComputeAllConsensus ==
    /\ consensus.pc = "idle"
    /\ started < MaxStarted
    /\ started' = started + 1
    /\ LET market_ids == active_market_ids(markets, source_markets)
       IN  consensus' =
              IF market_ids = << >> THEN IdleConsensus
              ELSE [IdleConsensus EXCEPT !.pc = "sources",
                                         !.market_ids = market_ids, !.next = 1]
    /\ UNCHANGED <<tables, clock, adapter, detector, consensus_snapshots,
                   accuracy_records, engineVars, brierVars, fetch>>

(* a variant in which the Err of compute_market_consensus is returned from *)
(* compute_all_consensus                                                   *)
next_market_returns(c, counted) ==
    IF c.next = Len(c.market_ids) \/ ~counted THEN IdleConsensus
    ELSE [c EXCEPT !.pc = "sources", !.next = c.next + 1, !.sources = << >>,
                   !.row = None, !.count = c.count + 1]

(* `for market_id in market_ids`: compute_market_consensus has returned,   *)
(* with Ok when counted; after the last market the pass returns            *)
next_market(c, counted) ==
    IF c.next = Len(c.market_ids) THEN IdleConsensus
    ELSE [c EXCEPT !.pc = "sources", !.next = c.next + 1, !.sources = << >>,
                   !.row = None,
                   !.count = IF counted THEN c.count + 1 ELSE c.count]

(* compute_market_consensus: the query over source_markets, sources and    *)
(* accuracy_records; with no row it returns Ok(())                         *)
ComputeSources ==
    /\ consensus.pc = "sources"
    /\ LET rows == source_data(source_markets, accuracy_records,
                               consensus.market_ids[consensus.next])
       IN  consensus' =
              IF rows = << >> THEN next_market(consensus, TRUE)
              ELSE [consensus EXCEPT !.pc = "bind", !.sources = rows]
    /\ UNCHANGED <<tables, clock, adapter, detector, started,
                   consensus_snapshots, accuracy_records, engineVars,
                   brierVars, fetch>>

(* compute_market_consensus: the query has answered; the inputs are built, *)
(* the engine is called, and the insert is built, which reads the clock    *)
(* for its time column, and is sent.  An Err of the engine is returned.    *)
BindSnapshotTime ==
    /\ consensus.pc = "bind"
    /\ LET inputs == SeqMap(source_input, consensus.sources)
           res == calculate_consensus(inputs)
       IN  IF res = Err
           THEN /\ consensus' = next_market(consensus, FALSE)
                /\ UNCHANGED clock
           ELSE /\ clock' = utc_now(clock)
                /\ consensus' = [consensus EXCEPT
                      !.pc = "insert",
                      !.row = Some(snapshot_row(utc_now(clock),
                                 consensus.market_ids[consensus.next], res))]
    /\ UNCHANGED <<tables, adapter, detector, started, consensus_snapshots,
                   accuracy_records, engineVars, brierVars, fetch>>

(* the database runs the consensus_snapshots insert;                       *)
(* compute_market_consensus returns Ok(())                                 *)
InsertSnapshot ==
    /\ consensus.pc = "insert"
    /\ consensus_snapshots' = Append(consensus_snapshots, consensus.row[1])
    /\ consensus' = next_market(consensus, TRUE)
    /\ UNCHANGED <<tables, clock, adapter, detector, started,
                   accuracy_records, engineVars, brierVars, fetch>>

(* the Scorer (no source file of the repository holds it): a market's      *)
(* status goes from active to resolved, or to canceled, and stays          *)
ResolveMarket(id, status) ==
    /\ markets[id].status = "active"
    /\ started < MaxStarted
    /\ started' = started + 1
    /\ markets' = [markets EXCEPT ![id].status = status]
    /\ UNCHANGED <<source_markets, odds_history, movement_events, clock,
                   adapter, detector, consensusVars, engineVars,
                   brierVars, fetch>>

NextConsensus ==
    \/ \E a \in ConsensusAdapters : \E m \in ConsensusQuotes(a) :
          UpsertSourceMarket(a, m)
    \/ \E a \in ConsensusAdapters : BindOddsTime(a)
    \/ \E a \in ConsensusAdapters : InsertOddsHistory(a)
    \/ \E a \in ConsensusAdapters : EnsureUnifiedMarket(a)
    \/ ComputeAllConsensus
    \/ ComputeSources
    \/ BindSnapshotTime
    \/ InsertSnapshot
    \/ \E id \in 1..Len(markets) : \E status \in {"resolved", "canceled"} :
          ResolveMarket(id, status)

SpecConsensus == InitConsensus /\ [][NextConsensus]_vars

(* The consensus worker when a statement may return an error.              *)

(* compute_all_consensus: the query for the markets returns an error,      *)
(* which `?` returns; run_consensus_worker logs it and sleeps              *)
ComputeAllConsensusFails ==
    /\ consensus.pc = "idle"
    /\ started < MaxStarted
    /\ started' = started + 1
    /\ UNCHANGED <<tables, clock, adapter, detector, consensusVars,
                   engineVars, brierVars, fetch>>

(* compute_market_consensus: the query for the sources returns an error,   *)
(* which `?` returns to the `for` of compute_all_consensus                 *)
ComputeSourcesFails ==
    /\ consensus.pc = "sources"
    /\ consensus' = next_market(consensus, FALSE)
    /\ UNCHANGED <<tables, clock, adapter, detector, started,
                   consensus_snapshots, accuracy_records, engineVars,
                   brierVars, fetch>>

(* compute_market_consensus: the insert returns an error, which `?`        *)
(* returns to the `for` of compute_all_consensus; no row is written        *)
InsertSnapshotFails ==
    /\ consensus.pc = "insert"
    /\ consensus' = next_market(consensus, FALSE)
    /\ UNCHANGED <<tables, clock, adapter, detector, started,
                   consensus_snapshots, accuracy_records, engineVars,
                   brierVars, fetch>>

NextConsensusFails ==
    \/ NextConsensus
    \/ ComputeAllConsensusFails
    \/ ComputeSourcesFails
    \/ InsertSnapshotFails

SpecConsensusFails == InitConsensus /\ [][NextConsensusFails]_vars

(* The tasks main.rs runs that write to the database: two adapters on      *)
(* records whose titles share slugs, the detector and the consensus        *)
(* worker, from empty tables.                                              *)
NextWorkers ==
    \/ \E a \in BatchAdapters : \E m \in IngestQuotes(a) : UpsertSourceMarket(a, m)
    \/ \E a \in BatchAdapters : BindOddsTime(a)
    \/ \E a \in BatchAdapters : InsertOddsHistory(a)
    \/ \E a \in BatchAdapters : EnsureUnifiedMarket(a)
    \/ DetectQuery
    \/ DetectRow
    \/ ComputeAllConsensus
    \/ ComputeSources
    \/ BindSnapshotTime
    \/ InsertSnapshot

SpecWorkers == Init /\ [][NextWorkers]_vars

-----------------------------------------------------------------------------
(* crates/consensus/src/brier.rs.  Its arithmetic is f64 arithmetic, and   *)
(* an f64 value is the sequence of limbs of the binary64 section above:    *)
(* every value here is 0 or a multiple of 2^-80 below 2^10.                *)

F64Zero == F64FromRatio(0, 1)
F64One == F64FromRatio(1, 1)
F64Hundred == F64FromRatio(100, 1)

(* mutant: the absolute error instead of the squared error *)
brier_score_single_abs(predicted, actual) == F64AbsDiff(predicted, actual)

(* (predicted - actual).powi(2): the difference is rounded, then its       *)
(* square; the sign of the difference does not reach the square            *)
brier_score_single(predicted, actual) ==
    F64Mul(F64AbsDiff(predicted, actual), F64AbsDiff(predicted, actual))

RECURSIVE brier_sum(_, _)
(* predictions.iter().map(..).sum() over the first n predictions: the      *)
(* scores are added in order, starting from 0.0                            *)
brier_sum(predictions, n) ==
    IF n = 0 THEN F64Zero
    ELSE F64Add(brier_sum(predictions, n - 1),
                brier_score_single(predictions[n].predicted, predictions[n].actual))

(* mutant: the sum of the scores, not divided by their number *)
brier_score_average_total(predictions) ==
    IF predictions = << >> THEN None
    ELSE Some(brier_sum(predictions, Len(predictions)))

brier_score_average(predictions) ==
    IF predictions = << >> THEN None
    ELSE Some(F64DivInt(brier_sum(predictions, Len(predictions)), Len(predictions)))

(* mutant: without the clamp, a negative value read as its magnitude *)
brier_to_accuracy_pct_unclamped(brier_score) ==
    F64Mul(F64AbsDiff(F64One, brier_score), F64Hundred)

(* ((1.0 - brier_score) * 100.0).clamp(0.0, 100.0), for brier_score >= 0:  *)
(* the product is negative or zero when brier_score >= 1 and is then       *)
(* clamped to 0.0, and it does not exceed 100.0                            *)
brier_to_accuracy_pct(brier_score) ==
    IF F64Ge(brier_score, F64One) THEN F64Zero
    ELSE Eval2(F64Min, F64Mul(F64AbsDiff(F64One, brier_score), F64Hundred), F64Hundred)

-----------------------------------------------------------------------------
(* The functions of brier.rs, each called once on arguments drawn from     *)
(* the sets below.                                                         *)

MaxPredictions == 3

(* the probabilities 0, 0.1, 0.5, 0.9 and 1 *)
Probabilities == { F64FromRatio(k, 100) : k \in {0, 10, 50, 90, 100} }

(* 2^-60, and the f64 next below 1 *)
NearZero == F64TwoToMinus(60)
NearOne == F64AbsDiff(F64One, F64TwoToMinus(53))

(* (predicted, actual) pairs: the probabilities with both outcomes, and    *)
(* the two probabilities next to an extreme with the opposite outcome      *)
Predictions ==
    { [predicted |-> p, actual |-> o] : p \in Probabilities, o \in {F64Zero, F64One} }
       \cup { [predicted |-> NearZero, actual |-> F64One],
              [predicted |-> NearOne, actual |-> F64Zero] }

(* Brier scores 0, 0.09, 0.25, 0.5, 1, 1.5 and 2, and the two next to the  *)
(* ends of [0, 1]                                                          *)
BrierScores ==
    { F64FromRatio(k, 100) : k \in {0, 9, 25, 50, 100, 150, 200} }
       \cup { NearZero, NearOne }

BrierCalls ==
    { [fn |-> "brier_score_single", predicted |-> x.predicted, actual |-> x.actual] :
        x \in Predictions }
    \cup { [fn |-> "brier_score_average", predictions |-> ps] :
             ps \in UNION { [1..n -> Predictions] : n \in 0..MaxPredictions } }
    \cup { [fn |-> "brier_to_accuracy_pct", brier_score |-> b] : b \in BrierScores }

InitBrier ==
    /\ brier_call \in BrierCalls
    /\ brier_returned = Pending
    /\ sources = << >>
    /\ result = Pending
    /\ InitWorkers

BrierScoreSingle ==
    /\ brier_returned = Pending
    /\ brier_call.fn = "brier_score_single"
    /\ brier_returned' = ReturnedValue(brier_score_single(brier_call.predicted, brier_call.actual))
    /\ UNCHANGED <<brier_call, engineVars, workerVars, consensusVars, fetch>>

BrierScoreAverage ==
    /\ brier_returned = Pending
    /\ brier_call.fn = "brier_score_average"
    /\ brier_returned' = ReturnedValue(brier_score_average(brier_call.predictions))
    /\ UNCHANGED <<brier_call, engineVars, workerVars, consensusVars, fetch>>

BrierToAccuracyPct ==
    /\ brier_returned = Pending
    /\ brier_call.fn = "brier_to_accuracy_pct"
    /\ brier_returned' = ReturnedValue(brier_to_accuracy_pct(brier_call.brier_score))
    /\ UNCHANGED <<brier_call, engineVars, workerVars, consensusVars, fetch>>

NextBrier == BrierScoreSingle \/ BrierScoreAverage \/ BrierToAccuracyPct

SpecBrier == InitBrier /\ [][NextBrier]_vars

-----------------------------------------------------------------------------
(* Properties of calculate_consensus, checked under SpecEngine.  Every     *)
(* input the specification draws is valid: probability in [0, 1],          *)
(* accuracy_pct absent or in [0, 100], resolved_count >= 0, volume absent  *)
(* or >= 0.                                                                *)

Returned == result # Pending
ReturnedOk == result.tag = "Ok"
AllWeights == SeqMap(LAMBDA w : w.weight, result.weights)
RatEq(a, b) == a.num * b.den = b.num * a.den
Distance(s) == RatAbs(RatSub(Prob(s), result.probability))

(* C1: for n >= 1 valid inputs the returned probability, confidence and    *)
(* agreement each lie in [0, 1] and the per-source weights sum to 1.       *)
C1_ResultInRange ==
    (Returned /\ Len(sources) >= 1) =>
        /\ ReturnedOk
        /\ RatLe(Zero, result.probability) /\ RatLe(result.probability, One)
        /\ 0 <= result.confidence /\ result.confidence <= FixedScale
        /\ 0 <= result.agreement /\ result.agreement <= FixedScale
        /\ Len(result.weights) = Len(sources)
        /\ RatEq(RatSum(AllWeights), One)

(* several sources with unequal weights that disagree *)
C1_Witness ==
    /\ Returned /\ ReturnedOk /\ Len(sources) >= 2
    /\ result.agreement < FixedScale
    /\ \E i, j \in 1..Len(result.weights) :
          ~RatEq(result.weights[i].weight, result.weights[j].weight)

(* C2: exactly one input returns that input's probability, confidence      *)
(* 0.30, agreement 1.0, source_count 1, the single weight 1.0 and no       *)
(* outliers, whatever its accuracy_pct, resolved_count and volume.         *)
C2_SingleSource ==
    (Returned /\ Len(sources) = 1) =>
        /\ ReturnedOk
        /\ RatEq(result.probability, Prob(sources[1]))
        /\ 10 * result.confidence = 3 * FixedScale
        /\ result.agreement = FixedScale
        /\ result.source_count = 1
        /\ Len(result.weights) = 1
        /\ RatEq(result.weights[1].weight, One)
        /\ result.outliers = << >>

(* one accurate, liquid source: the blended confidence would not be 0.30 *)
C2_Witness ==
    /\ Returned /\ ReturnedOk /\ Len(sources) = 1
    /\ sources[1].accuracy_pct = Some(90)
    /\ sources[1].resolved_count >= MIN_RESOLVED_FOR_ACCURACY
    /\ sources[1].volume # None

SameProbability ==
    \A i, j \in 1..Len(sources) : sources[i].probability = sources[j].probability

SameTrackRecord ==
    \A i, j \in 1..Len(sources) :
        /\ sources[i].accuracy_pct = sources[j].accuracy_pct
        /\ sources[i].resolved_count = sources[j].resolved_count

C5_EmptyIsError ==
    (Returned /\ Len(sources) = 0) => result = Err

C5_Witness == Returned /\ Len(sources) = 0 /\ result.tag = "Err"

RECURSIVE ExpectedOutliers(_)
(* the inputs 1..i whose distance from the returned mean exceeds 0.15, in  *)
(* input order, each with that distance                                    *)
ExpectedOutliers(i) ==
    IF i = 0 THEN << >>
    ELSE IF 100 * Distance(sources[i]).num > 15 * Distance(sources[i]).den
         THEN Append(ExpectedOutliers(i - 1),
                     [source_id |-> sources[i].source_id,
                      probability |-> Prob(sources[i]),
                      deviation |-> Distance(sources[i])])
         ELSE ExpectedOutliers(i - 1)

-----------------------------------------------------------------------------
(* Properties of the workers, checked under Spec. *)

(* the detector takes one turn of its loop, for the row TurnRow *)
DetectorTurn == detector.pc = "loop" /\ detector' # detector
TurnRow == detector.markets[detector.next]

(* the turn inserts one event, for the turn's source market *)
EventInserted ==
    /\ Len(movement_events') = Len(movement_events) + 1
    /\ movement_events'[Len(movement_events')].source_market_id
          = TurnRow.source_market_id

(* |p_now - p_prev| of a row in millionths, taken on the stored decimals;  *)
(* no second-most-recent point, no change                                  *)
DecimalChange(row) ==
    IF row.previous_probability = None THEN 0
    ELSE Abs(row.current_probability[1] - row.previous_probability[1])

(* C7: in one pass the detector inserts a MovementEvent for a SourceMarket *)
(* if and only if |p_now - p_prev| >= 0.05, p_prev being the               *)
(* second-most-recent OddsHistory probability; a change of exactly 0.05    *)
(* produces one event.                                                     *)
C7_EventIffChange ==
    [][DetectorTurn => (EventInserted <=> DecimalChange(TurnRow) >= 50000)]_vars

(* C8: rows of OddsHistory are only ever appended: no step of a worker     *)
(* changes or removes a row that is there.                                 *)
C8_OddsHistoryAppendOnly ==
    [][\A i \in 1..Len(odds_history) :
          /\ i <= Len(odds_history')
          /\ odds_history'[i] = odds_history[i]]_vars

(* a source market was quoted twice at the same probability, and both      *)
(* points are there                                                        *)
C8_Witness ==
    \E i, j \in 1..Len(odds_history) :
        /\ i < j
        /\ odds_history[i].source_market_id = odds_history[j].source_market_id
        /\ odds_history[i].probability = odds_history[j].probability

IsPrefix(s, t) == Len(s) <= Len(t) /\ \A i \in 1..Len(s) : s[i] = t[i]

(* what a read of the odds history ordered by its time column returns:     *)
(* of the whole table, and of one source market's points                   *)
ReadByTime(table) ==
    LET order == order_by_time(table, 1..Len(table))
    IN  [k \in 1..Len(order) |-> table[order[k]]]
ReadSourceMarketByTime(table, id) ==
    LET order == order_by_time(table, rows_of(table, id))
    IN  [k \in 1..Len(order) |-> table[order[k]]]

(* C9 as stated: for two reads R1 before R2 of the odds history ordered by *)
(* time, under any interleaving of the adapters, R1 is a prefix of R2.     *)
C9_ReadsArePrefixes ==
    [][IsPrefix(ReadByTime(odds_history), ReadByTime(odds_history'))]_vars

(* C9: for two reads R1 before R2 of the odds history of one SourceMarket  *)
(* ordered by time, under any interleaving of the three adapters, R1 is a  *)
(* prefix of R2: no point of a SourceMarket is inserted with a timestamp   *)
(* earlier than a point of it that an earlier read returned.               *)
C9_ReadsOfOneSourceMarketArePrefixes ==
    [][\A i \in 1..Len(source_markets) :
          IsPrefix(ReadSourceMarketByTime(odds_history, source_markets[i].id),
                   ReadSourceMarketByTime(odds_history', source_markets[i].id))]_vars

(* a point was inserted after a later-stamped point of another venue,      *)
(* while some source market has two points                                 *)
C9_Witness ==
    /\ \E i, j \in 1..Len(odds_history) :
          i < j /\ odds_history[i].time > odds_history[j].time
    /\ \E i \in 1..Len(source_markets) :
          Cardinality(rows_of(odds_history, source_markets[i].id)) >= 2

(* C10: the timestamps of one SourceMarket's OddsHistory points strictly   *)
(* increase in the order the points were appended.                         *)
C10_TimesIncreasePerSourceMarket ==
    \A i, j \in 1..Len(odds_history) :
        (i < j /\ odds_history[i].source_market_id = odds_history[j].source_market_id)
            => odds_history[i].time < odds_history[j].time

(* two points of one source market with a point of another venue appended  *)
(* between them                                                            *)
C10_Witness ==
    \E i, j, k \in 1..Len(odds_history) :
        /\ i < k /\ k < j
        /\ odds_history[i].source_market_id = odds_history[j].source_market_id
        /\ odds_history[k].source_market_id # odds_history[i].source_market_id

(* adapter a is inside a call of upsert_source_market after the step, and  *)
(* the step is the one in which the call returns                           *)
InUpsert(a) == adapter'[a].pc \in {"bind_time", "insert_odds"}
UpsertReturns(a) == adapter[a].pc = "insert_odds" /\ adapter'[a].pc = "ensure"

(* C11: every successful call of upsert_source_market appends exactly one  *)
(* OddsHistory row, for the returned SourceMarket and with the submitted   *)
(* probability, also when that probability equals the SourceMarket's       *)
(* previous one: the step in which the call returns appends that row, and  *)
(* no step before it adds a row for the call's SourceMarket.               *)
C11_UpsertAppendsOnePoint ==
    [][\A a \in Adapters :
          /\ UpsertReturns(a) =>
                /\ Len(odds_history') = Len(odds_history) + 1
                /\ SubSeq(odds_history', 1, Len(odds_history)) = odds_history
                /\ LET row == odds_history'[Len(odds_history')]
                       id == adapter[a].source_market_id
                   IN  /\ row.source_market_id = id
                       /\ row.probability = adapter[a].prob
                       /\ Some(row.probability) = source_markets[id].current_probability
                       /\ row.probability \in JsonProbabilities(a)
          /\ InUpsert(a) =>
                rows_of(odds_history', adapter'[a].source_market_id)
                   = rows_of(odds_history, adapter'[a].source_market_id)]_vars

(* a call has just returned whose probability was the source market's      *)
(* latest point already                                                    *)
C11_Witness ==
    \E a \in Adapters :
        /\ adapter[a].pc = "ensure"
        /\ LET mine == rows_of(odds_history, adapter[a].source_market_id)
           IN  /\ Cardinality(mine) >= 2
               /\ SetMax(mine) = Len(odds_history)
               /\ odds_history[SetMax(mine)].probability
                     = odds_history[SetMax(mine \ {SetMax(mine)})].probability

-----------------------------------------------------------------------------
(* Properties of ingestion, checked under SpecIngest. *)

(* the positions of the rows of source_markets with a key *)
RowsWithKey(table, source_id, external_id) ==
    { i \in 1..Len(table) :
        table[i].source_id = source_id /\ table[i].external_id = external_id }

(* C12: there is at most one SourceMarket row per (source_id,              *)
(* external_id), and every call of upsert_source_market with the same      *)
(* source slug and external_id returns the same source_market_id whatever  *)
(* else is submitted: a row keeps its id and its key for good, and the     *)
(* call returns the id of the one row that has the submitted key.          *)
C12_OneRowPerKey ==
    [][/\ \A i, j \in 1..Len(source_markets') :
             (/\ source_markets'[i].source_id = source_markets'[j].source_id
              /\ source_markets'[i].external_id = source_markets'[j].external_id)
                => i = j
       /\ \A i \in 1..Len(source_markets) :
             /\ i <= Len(source_markets')
             /\ source_markets'[i].id = source_markets[i].id
             /\ source_markets'[i].source_id = source_markets[i].source_id
             /\ source_markets'[i].external_id = source_markets[i].external_id
       /\ \A a \in Adapters : \A m \in IngestQuotes(a) :
             UpsertSourceMarket(a, m) =>
                \E i \in RowsWithKey(source_markets', a, m.external_id) :
                   /\ adapter'[a].source_market_id = source_markets'[i].id
                   /\ source_markets'[i].title = m.title]_vars

(* a market of a venue was upserted a second time, under a title other     *)
(* than the one its Market was created with, while there are other rows    *)
C12_Witness ==
    /\ Len(source_markets) >= 2
    /\ \E a \in Adapters :
          /\ adapter[a].pc = "bind_time"
          /\ LET row == source_markets[adapter[a].source_market_id]
             IN  /\ row.market_id # None
                 /\ markets[row.market_id[1]].title # row.title

(* the slug adapter a derives from a title *)
SlugOf(a, title) == slug_prefix(a) \o slug_from_title(title)

(* C13: once a SourceMarket's market_id is non-null it never changes: no   *)
(* later step of upsert_source_market or ensure_unified_market, also one   *)
(* made with a title that gives another slug, sets it to another Market    *)
(* or to null, and ensure_unified_market then returns the existing         *)
(* market_id and writes nothing.                                           *)
C13_MarketIdMonotonic ==
    [][/\ \A i \in 1..Len(source_markets) :
             source_markets[i].market_id # None =>
                source_markets'[i].market_id = source_markets[i].market_id
       /\ \A a \in Adapters :
             (/\ EnsureUnifiedMarket(a)
              /\ source_markets[adapter[a].source_market_id].market_id # None)
                => /\ Some(ensure_unified_market_returns(a))
                         = source_markets[adapter[a].source_market_id].market_id
                   /\ UNCHANGED <<source_markets, markets>>]_vars

(* a source market whose title now gives another slug than its Market's,   *)
(* after ensure_unified_market ran for that title                          *)
C13_Witness ==
    \E i \in 1..Len(source_markets) :
        /\ source_markets[i].market_id # None
        /\ markets[source_markets[i].market_id[1]].slug
              # SlugOf(source_markets[i].source_id, source_markets[i].title)
        /\ adapter[source_markets[i].source_id].pc = "idle"

(* the positions of the rows of markets with a slug *)
MarketsWithSlug(table, slug) == { j \in 1..Len(table) : table[j].slug = slug }

(* adapter a's call of ensure_unified_market in this step, made once more  *)
(* with the same arguments over the tables it left, returns the same       *)
(* market_id and, taking the early return, writes nothing                  *)
SecondCallAgrees(a) ==
    /\ ensure_unified_market_id(source_markets', markets', a,
                                adapter[a].source_market_id, adapter[a].title)
          = ensure_unified_market_returns(a)
    /\ source_markets'[adapter[a].source_market_id].market_id # None

(* C14 as stated: ensure_unified_market called twice with the same         *)
(* arguments returns the same market_id both times and leaves exactly one  *)
(* Market row with that slug; there is never more than one Market row per  *)
(* slug.                                                                   *)
C14_ExactlyOneMarketForSlug ==
    [][/\ \A j, k \in 1..Len(markets') :
             markets'[j].slug = markets'[k].slug => j = k
       /\ \A a \in Adapters :
             EnsureUnifiedMarket(a) =>
                /\ SecondCallAgrees(a)
                /\ Cardinality(MarketsWithSlug(markets',
                                   SlugOf(a, adapter[a].title))) = 1]_vars

(* C14: ensure_unified_market called twice with the same arguments returns *)
(* the same market_id both times and leaves at most one Market row with    *)
(* that slug, exactly one if the SourceMarket had no Market before the     *)
(* first call; there is never more than one Market row per slug.           *)
C14_EnsureIdempotent ==
    [][/\ \A j, k \in 1..Len(markets') :
             markets'[j].slug = markets'[k].slug => j = k
       /\ \A a \in Adapters :
             EnsureUnifiedMarket(a) =>
                /\ SecondCallAgrees(a)
                /\ Cardinality(MarketsWithSlug(markets',
                                   SlugOf(a, adapter[a].title))) <= 1
                /\ source_markets[adapter[a].source_market_id].market_id = None
                      => Cardinality(MarketsWithSlug(markets',
                                         SlugOf(a, adapter[a].title))) = 1]_vars

(* a source market ingested twice, linked to the Market of its title's     *)
(* slug, which a second source market found by that slug                   *)
C14_Witness ==
    \E i, k \in 1..Len(source_markets) :
        /\ i # k
        /\ source_markets[i].market_id # None
        /\ source_markets[k].market_id = source_markets[i].market_id
        /\ Cardinality(rows_of(odds_history, source_markets[i].id)) >= 2
        /\ adapter[source_markets[i].source_id].pc = "idle"
        /\ markets[source_markets[i].market_id[1]].slug
              = SlugOf(source_markets[i].source_id, source_markets[i].title)

(* two source markets of different venues, both linked to a Market *)
LinkedAcrossVenues(i, k) ==
    /\ source_markets[i].source_id # source_markets[k].source_id
    /\ source_markets[i].market_id # None
    /\ source_markets[k].market_id # None

(* C15: two venues producing identical titles converge on the same         *)
(* Market: when two different adapters each ingest a record with the same  *)
(* title, the two SourceMarkets are linked to the same market_id.          *)
C15_SameTitleSameMarket ==
    \A i, k \in 1..Len(source_markets) :
        (/\ LinkedAcrossVenues(i, k)
         /\ source_markets[i].title = source_markets[k].title)
            => source_markets[i].market_id = source_markets[k].market_id

(* C16: SourceMarkets ingested by different venues are always linked to    *)
(* different Markets, even for identical titles, the slug carrying the     *)
(* adapter's own source tag; so every Market has linked SourceMarkets of   *)
(* one venue only, the venue whose tag its slug begins with.               *)
C16_VenuesNeverShareMarket ==
    /\ \A i, k \in 1..Len(source_markets) :
          LinkedAcrossVenues(i, k)
             => source_markets[i].market_id # source_markets[k].market_id
    /\ \A i \in 1..Len(source_markets) :
          source_markets[i].market_id # None =>
             IsPrefix(slug_prefix(source_markets[i].source_id),
                      markets[source_markets[i].market_id[1]].slug)

(* two venues have ingested the same title and both source markets are     *)
(* linked                                                                  *)
C16_Witness ==
    \E i, k \in 1..Len(source_markets) :
        /\ LinkedAcrossVenues(i, k)
        /\ source_markets[i].title = source_markets[k].title

(* The characters titles are written with, and the titles the lexical      *)
(* properties of slug_from_title are checked on: every title of at most    *)
(* MaxTitleLen characters and titles longer than the slug may be.          *)
TitleChars == { "a", "A", "b", " ", "?" }
MaxTitleLen == 3
ShortTitles == UNION { [1..n -> TitleChars] : n \in 0..MaxTitleLen }
LongTitles ==
    { [i \in 1..(SlugMaxLen + 1) |-> "a"],
      << "A", "?" >> \o [i \in 1..SlugMaxLen |-> "b"],
      [i \in 1..(SlugMaxLen + 20) |-> IF i % 3 = 0 THEN " " ELSE "B"] }
SlugTitles == ShortTitles \cup LongTitles

RECURSIVE collapse_spaces(_, _, _)
(* s from character i on with every space that follows a space left out *)
collapse_spaces(s, i, acc) ==
    IF i > Len(s) THEN acc
    ELSE IF s[i] = " " /\ i > 1 /\ s[i - 1] = " "
         THEN collapse_spaces(s, i + 1, acc)
         ELSE collapse_spaces(s, i + 1, Append(acc, s[i]))

KeptInPlainTitle(c) == is_alphanumeric(c) \/ c = " "

(* a title without what the claim calls case and punctuation: in lower     *)
(* case, the non-alphanumeric characters other than spaces left out, and   *)
(* repeated spaces made one                                                *)
PlainTitle(title) ==
    collapse_spaces(SelectSeq(SeqMap(to_lowercase, title), KeptInPlainTitle),
                    1, << >>)

RECURSIVE WordsFrom(_, _, _, _)
(* the words of a title from character i on: the maximal runs of           *)
(* alphanumeric characters, in lower case                                  *)
WordsFrom(t, i, word, done) ==
    IF i > Len(t)
    THEN IF word = << >> THEN done ELSE Append(done, word)
    ELSE IF is_alphanumeric(t[i])
         THEN WordsFrom(t, i + 1, Append(word, to_lowercase(t[i])), done)
         ELSE WordsFrom(t, i + 1, << >>,
                        IF word = << >> THEN done ELSE Append(done, word))

TitleWords(title) == WordsFrom(title, 1, << >>, << >>)

(* the words and the slug of every short title *)
WordsAndSlug ==
    [t \in ShortTitles |-> [words |-> TitleWords(t), slug |-> slug_from_title(t)]]

(* titles with the same words have the same slug: there are as many       *)
(* different pairs of words and slug as there are different words          *)
SameWordsSameSlug ==
    Cardinality({ WordsAndSlug[t] : t \in ShortTitles })
       = Cardinality({ WordsAndSlug[t].words : t \in ShortTitles })

(* the words of a title, read from the table where it has the title *)
WordsOf(title) ==
    IF title \in ShortTitles THEN WordsAndSlug[title].words ELSE TitleWords(title)

(* two source markets of one venue *)
SameVenue(i, k) == source_markets[i].source_id = source_markets[k].source_id

(* source market i is linked to the Market of the slug of its title *)
LinkedUnderItsTitle(i) ==
    /\ source_markets[i].market_id # None
    /\ markets[source_markets[i].market_id[1]].slug
          = SlugOf(source_markets[i].source_id, source_markets[i].title)

(* no title has a slug of more than SlugMaxLen characters *)
SlugNeverLonger == \A t \in SlugTitles : Len(slug_from_title(t)) <= SlugMaxLen

(* no slug body is longer than SlugMaxLen characters *)
SlugBodiesBounded ==
    /\ SlugNeverLonger
    /\ \A j \in 1..Len(markets) : Len(markets[j].slug) <= 3 + SlugMaxLen

(* C17 as stated: within one venue, two records whose titles differ only   *)
(* in letter case or in punctuation (non-alphanumeric characters and       *)
(* repeated whitespace) get the same slug from slug_from_title and are     *)
(* linked to the same Market; the slug body is never longer than 200       *)
(* characters.                                                             *)
C17_CaseAndPunctuationSameMarket ==
    /\ \A i \in 1..Len(source_markets) : \A k \in (i + 1)..Len(source_markets) :
          (/\ SameVenue(i, k)
           /\ PlainTitle(source_markets[i].title) = PlainTitle(source_markets[k].title))
             => /\ slug_from_title(source_markets[i].title)
                      = slug_from_title(source_markets[k].title)
                /\ (source_markets[i].market_id # None /\ source_markets[k].market_id # None)
                      => source_markets[i].market_id = source_markets[k].market_id
    /\ SlugBodiesBounded

(* C17: within one venue, two records whose titles have the same words     *)
(* (the maximal runs of alphanumeric characters, compared without regard   *)
(* to letter case, every other character only separating words) get the    *)
(* same slug from slug_from_title, and two SourceMarkets each linked to    *)
(* the Market of its title's slug are then linked to the same Market; the  *)
(* slug body is never longer than 200 characters.                          *)
C17_SameWordsSameMarket ==
    /\ SameWordsSameSlug
    /\ \A i \in 1..Len(source_markets) : \A k \in (i + 1)..Len(source_markets) :
          (/\ SameVenue(i, k)
           /\ WordsOf(source_markets[i].title) = WordsOf(source_markets[k].title))
             => /\ slug_from_title(source_markets[i].title)
                      = slug_from_title(source_markets[k].title)
                /\ (LinkedUnderItsTitle(i) /\ LinkedUnderItsTitle(k))
                      => source_markets[i].market_id = source_markets[k].market_id
    /\ SlugBodiesBounded

(* a title longer than SlugMaxLen has a slug of SlugMaxLen characters *)
LongTitleCut == \E t \in LongTitles : Len(slug_from_title(t)) = SlugMaxLen

(* two source markets of one venue with titles that differ in case and in  *)
(* punctuation and have the same words are linked to one Market, and a     *)
(* title longer than SlugMaxLen has a slug of SlugMaxLen characters        *)
C17_Witness ==
    /\ \E i, k \in 1..Len(source_markets) :
          /\ SameVenue(i, k)
          /\ source_markets[i].title # source_markets[k].title
          /\ WordsOf(source_markets[i].title) = WordsOf(source_markets[k].title)
          /\ LinkedUnderItsTitle(i)
          /\ LinkedUnderItsTitle(k)
          /\ source_markets[i].market_id = source_markets[k].market_id
    /\ LongTitleCut

(* Properties of brier.rs, checked under SpecBrier. *)

(* the call of fn has returned *)
HasReturned(fn) == brier_call.fn = fn /\ brier_returned # Pending

(* |a - b|, exact *)
ExactDiff(A, B) == IF F64Ge(A, B) THEN SubFrom(A, B, 1, 0) ELSE SubFrom(B, A, 1, 0)

(* (predicted - actual)^2, exact, in limbs of which 2 * FracLimbs are      *)
(* fraction limbs                                                          *)
SquareLimbs(D) == MulLimbs(D, D)
ExactSquare(predicted, actual) == Eval1(SquareLimbs, ExactDiff(predicted, actual))

(* R is E up to the rounding of a few f64 operations: they are equal, or   *)
(* differ by less than 2^-47 of E                                          *)
WithinRounding(R, E) ==
    R = E \/ BitLen(ExactDiff(R, E)) + 48 <= BitLen(E)

(* p is the extreme opposite to the outcome: |p - outcome| = 1 *)
OppositeExtreme(predicted, actual) == ExactDiff(predicted, actual) = F64One

(* how far p is from the extreme opposite to the outcome, exact *)
FromOppositeExtreme(predicted, actual) ==
    SubFrom(F64One, ExactDiff(predicted, actual), 1, 0)

(* what brier_score_single returns is the squared error up to rounding and *)
(* lies in [0, 1]                                                          *)
SingleIsSquaredError ==
    /\ Eval2(WithinRounding, Widen(brier_returned.value),
             ExactSquare(brier_call.predicted, brier_call.actual))
    /\ F64Ge(brier_returned.value, F64Zero)
    /\ F64Ge(F64One, brier_returned.value)

(* C18 as stated: for every predicted probability p in [0,1] and outcome   *)
(* in {0,1}, brier_score_single returns (p - outcome)^2, which lies in     *)
(* [0,1], equals 0 exactly when p equals the outcome and equals 1 exactly  *)
(* when p is the opposite extreme.                                         *)
C18_ZeroAndOneOnlyAtExtremes ==
    HasReturned("brier_score_single") =>
       /\ SingleIsSquaredError
       /\ brier_returned.value = F64Zero <=> brier_call.predicted = brier_call.actual
       /\ brier_returned.value = F64One
             <=> OppositeExtreme(brier_call.predicted, brier_call.actual)

(* C18: for every predicted probability p in [0,1] and outcome in {0,1},   *)
(* brier_score_single returns (p - outcome)^2 up to f64 rounding, which    *)
(* lies in [0,1], is 0 when p equals the outcome and 1 when p is the       *)
(* opposite extreme; a result of 1 means that p is within 2^-53 of the     *)
(* opposite extreme, and a result of 0 that p is within 2^-537 of the      *)
(* outcome, which for the multiples of 2^-80 of this model is equality.    *)
C18_SingleIsRoundedSquaredError ==
    HasReturned("brier_score_single") =>
       /\ SingleIsSquaredError
       /\ brier_call.predicted = brier_call.actual => brier_returned.value = F64Zero
       /\ OppositeExtreme(brier_call.predicted, brier_call.actual)
             => brier_returned.value = F64One
       /\ brier_returned.value = F64One
             => F64Ge(F64TwoToMinus(53),
                      FromOppositeExtreme(brier_call.predicted, brier_call.actual))
       /\ brier_returned.value = F64Zero => brier_call.predicted = brier_call.actual

(* the score of a probability that is not an extreme is 1 *)
C18_Witness ==
    /\ HasReturned("brier_score_single")
    /\ brier_call.predicted = NearZero
    /\ brier_call.actual = F64One
    /\ brier_returned.value = F64One

(* (1 - b) * 100 for b < 1, exact *)
ExactPct(b) == Eval2(MulLimbs, ExactDiff(F64One, b), F64Hundred)

(* C19: brier_to_accuracy_pct maps every Brier score b to (1 - b) * 100    *)
(* clamped to [0,100], up to f64 rounding: the result is always in         *)
(* [0,100], is 100 for b = 0, 0 for b >= 1, and never increases when b     *)
(* increases.                                                              *)
C19_AccuracyIsClampedComplement ==
    HasReturned("brier_to_accuracy_pct") =>
       /\ IF F64Ge(brier_call.brier_score, F64One)
          THEN brier_returned.value = F64Zero
          ELSE Eval2(WithinRounding, Widen(brier_returned.value),
                     ExactPct(brier_call.brier_score))
       /\ F64Ge(brier_returned.value, F64Zero)
       /\ F64Ge(F64Hundred, brier_returned.value)
       /\ brier_call.brier_score = F64Zero => brier_returned.value = F64Hundred
       /\ \A b \in BrierScores :
             F64Ge(b, brier_call.brier_score)
                => F64Ge(brier_returned.value, Eval1(brier_to_accuracy_pct, b))

(* a Brier score above 1 gave 0, where (1 - b) * 100 is negative *)
C19_Witness ==
    /\ HasReturned("brier_to_accuracy_pct")
    /\ F64Gt(brier_call.brier_score, F64One)
    /\ brier_returned.value = F64Zero

RECURSIVE ExactSum(_, _)
(* the sum of the exact squared errors of the first n predictions *)
ExactSum(predictions, n) ==
    IF n = 0 THEN Widen(F64Zero)
    ELSE Eval2(AddLimbs, ExactSum(predictions, n - 1),
               ExactSquare(predictions[n].predicted, predictions[n].actual))

(* W times the natural number n, exact *)
TimesInt(W, n) == Carry([i \in 1..Len(W) |-> W[i] * n], 1, 0)

(* the predictions of scenario S4: (0.9, 1), (0.1, 0), (0.5, 1) *)
S4Predictions ==
    << [predicted |-> F64FromRatio(90, 100), actual |-> F64One],
       [predicted |-> F64FromRatio(10, 100), actual |-> F64Zero],
       [predicted |-> F64FromRatio(50, 100), actual |-> F64One] >>

(* C20: brier_score_average returns the arithmetic mean of the             *)
(* per-prediction Brier scores, up to f64 rounding, for every non-empty    *)
(* list of (prediction, outcome) pairs, a value in [0,1] for valid inputs, *)
(* and returns no value (None) for the empty list.                         *)
C20_AverageIsMean ==
    HasReturned("brier_score_average") =>
       IF brier_call.predictions = << >>
       THEN brier_returned.value = None
       ELSE /\ brier_returned.value # None
            /\ Eval2(WithinRounding,
                     TimesInt(Widen(brier_returned.value[1]), Len(brier_call.predictions)),
                     ExactSum(brier_call.predictions, Len(brier_call.predictions)))
            /\ F64Ge(brier_returned.value[1], F64Zero)
            /\ F64Ge(F64One, brier_returned.value[1])

(* the mean of scenario S4 was returned: 0.09 up to rounding *)
C20_Witness ==
    /\ HasReturned("brier_score_average")
    /\ brier_call.predictions = S4Predictions
    /\ brier_returned.value # None
    /\ F64ToDecimal(brier_returned.value[1], 6) = 90000

-----------------------------------------------------------------------------
(* Properties of the consensus worker, checked under SpecConsensus. *)

(* the market is active and has a linked source market with a probability *)
Eligible(id) ==
    /\ markets[id].status = "active"
    /\ \E k \in 1..Len(source_markets) :
          /\ source_markets[k].market_id = Some(id)
          /\ source_markets[k].current_probability # None

(* how often a pass has the market among those it computes *)
TimesSelected(c, id) ==
    Cardinality({ j \in 1..Len(c.market_ids) : c.market_ids[j] = id })

(* the market_id column of the rows of the table, in order *)
MarketsOf(table) == [i \in 1..Len(table) |-> table[i].market_id]

QuotesRecorded == \A a \in Adapters : adapter[a].pc \in {"idle", "ensure"}

(* odds_history has a point, not later than the snapshot, at which a       *)
(* source market of the snapshot's market had the probability of the       *)
(* weight entry w of the venue w.source_id                                 *)
ObservedBefore(snapshot, w) ==
    \E i \in 1..Len(odds_history) :
       LET sm == source_markets[odds_history[i].source_market_id]
       IN  /\ sm.source_id = w.source_id
           /\ sm.market_id = Some(snapshot.market_id)
           /\ Rat(odds_history[i].probability, 1000000) = w.probability
           /\ odds_history[i].time <= snapshot.time

(* C22: once every probability written has its odds_history row, every     *)
(* probability a snapshot aggregated has an observation time (the time of  *)
(* an odds_history row with that probability) not later than the           *)
(* snapshot's time.                                                        *)
C22_SnapshotNotBeforeItsQuotes ==
    QuotesRecorded =>
       \A i \in 1..Len(consensus_snapshots) :
          \A k \in 1..Len(consensus_snapshots[i].weights) :
             ObservedBefore(consensus_snapshots[i],
                            consensus_snapshots[i].weights[k])

(* the current probabilities, in millionths, of the source markets linked  *)
(* to the market                                                           *)
CurrentProbabilities(id) ==
    { source_markets[k].current_probability[1] :
        k \in { j \in 1..Len(source_markets) :
                   /\ source_markets[j].market_id = Some(id)
                   /\ source_markets[j].current_probability # None } }

(* the probabilities, in millionths, a snapshot row aggregated *)
Aggregated(row) ==
    { RatToMicro(row.weights[k].probability) : k \in 1..Len(row.weights) }

(* C23: the snapshots of one market are ordered by time (a snapshot that   *)
(* is appended is later than every snapshot the market has), and the       *)
(* probabilities a snapshot aggregates are those the worker's one query    *)
(* returned, which are the current probabilities of all the source markets *)
(* linked to the market in the state the query ran in.                     *)
C23_OrderedAndReadAtOneInstant ==
    [][ /\ ComputeSources =>
              (consensus'.pc = "bind" =>
                  { consensus'.sources[k].probability :
                       k \in 1..Len(consensus'.sources) }
                     = CurrentProbabilities(consensus.market_ids[consensus.next]))
        /\ InsertSnapshot =>
              LET row == consensus_snapshots'[Len(consensus_snapshots')]
              IN  /\ Aggregated(row)
                        = { consensus.sources[k].probability :
                               k \in 1..Len(consensus.sources) }
                  /\ \A i \in 1..Len(consensus_snapshots) :
                        consensus_snapshots[i].market_id = row.market_id =>
                           consensus_snapshots[i].time < row.time
      ]_vars

(* the worker is about to append a second snapshot for a market of two     *)
(* source markets, one of which has been re-quoted since the query ran     *)
C23_Witness ==
    /\ consensus.pc = "insert"
    /\ Len(consensus.sources) >= 2
    /\ \E i \in 1..Len(consensus_snapshots) :
          consensus_snapshots[i].market_id = consensus.row[1].market_id
    /\ CurrentProbabilities(consensus.row[1].market_id)
          # Aggregated(consensus.row[1])

(* the source markets linked to the market that have a probability; no    *)
(* step of SpecConsensus adds to them or takes from them                   *)
LinkedAndQuoted(id) ==
    { k \in 1..Len(source_markets) :
         /\ source_markets[k].market_id = Some(id)
         /\ source_markets[k].current_probability # None }

(* C29: the source_count of every snapshot is the number of source markets *)
(* linked to its market that have a non-null probability, and the snapshot *)
(* has one weight entry for each of them.                                  *)
C29_OneInputPerSourceMarket ==
    \A i \in 1..Len(consensus_snapshots) :
       LET n == Cardinality(LinkedAndQuoted(consensus_snapshots[i].market_id))
       IN  /\ consensus_snapshots[i].source_count = n
           /\ Len(consensus_snapshots[i].weights) = n

-----------------------------------------------------------------------------
(* Properties of the adapters' passes, checked under SpecFetch.            *)

(* the id under which the adapter files the record *)
external_id_of(a, r) == IF a = "polymarket" THEN polymarket_external_id(r) ELSE r.id

(* source_markets has a row for the record r of venue a *)
Persisted(a, r) ==
    \E i \in 1..Len(source_markets) :
       /\ source_markets[i].source_id = a
       /\ source_markets[i].external_id = external_id_of(a, r)

(* C24: a record the venue marks closed, resolved or not binary in its     *)
(* payload causes no source_markets row and no odds_history row, for each  *)
(* of the three adapters.  In the feed a marked record has an id no        *)
(* unmarked record has, so a row under its id was written for it.          *)
C24_MarkedRecordsNotPersisted ==
    \A a \in Adapters : \A r \in Records(a) :
       Marked(a, r) =>
          /\ ~Persisted(a, r)
          /\ \A i \in 1..Len(odds_history) :
                LET sm == source_markets[odds_history[i].source_market_id]
                IN  ~(sm.source_id = a /\ sm.external_id = external_id_of(a, r))

(* the probability column, in millionths, lies in [0, 1] *)
InUnitInterval(prob) == 0 <= prob /\ prob <= 1000000

(* C25: every probability ingestion persists lies in [0, 1]: every         *)
(* current_probability of source_markets and every probability of          *)
(* odds_history, after any passes over any payloads.                       *)
C25_PersistedProbabilitiesInUnitInterval ==
    /\ \A i \in 1..Len(source_markets) :
          source_markets[i].current_probability # None
             => InUnitInterval(source_markets[i].current_probability[1])
    /\ \A i \in 1..Len(odds_history) :
          InUnitInterval(odds_history[i].probability)

(* C30: a pass of any adapter requests at most 5 pages, whatever the venue *)
(* answers.                                                                *)
C30_AtMostFivePagesPerPass ==
    \A a \in Adapters : fetch[a].requests <= 5

(* upsert_source_market is between its first statement and its return     *)
(* for the source market at position i                                     *)
UpsertOpen(i) ==
    LET a == source_markets[i].source_id
    IN  adapter[a].pc \in {"bind_time", "insert_odds"}
           /\ adapter[a].source_market_id = i

(* the position in odds_history of the latest point of source market i *)
latest_point(i) ==
    CHOOSE j \in rows_of(odds_history, i) :
       \A k \in rows_of(odds_history, i) : odds_history[k].time <= odds_history[j].time

(* C28: upsert_source_market is all-or-nothing: once it has returned, with *)
(* an error or without, the source market's current_probability is the     *)
(* probability of its latest odds_history point.                           *)
C28_UpsertAllOrNothing ==
    \A i \in 1..Len(source_markets) :
       ~UpsertOpen(i) =>
          /\ rows_of(odds_history, i) # {}
          /\ Some(odds_history[latest_point(i)].probability)
                = source_markets[i].current_probability

-----------------------------------------------------------------------------
(* Properties of the movement detector next to ingestion.                  *)

(* the step is the query of detect_movements *)
DetectorReads ==
    detector.pc = "idle" /\ started' = started + 1 /\ adapter' = adapter

(* the query returns a row for the source market at position i *)
ReadByDetector(i) ==
    /\ source_markets[i].status = "active"
    /\ source_markets[i].current_probability # None
    /\ source_markets[i].market_id # None

(* C27: whenever the detector reads a source market, the latest            *)
(* odds_history point of that source market has the probability of its     *)
(* current_probability, under every interleaving with                      *)
(* upsert_source_market.                                                   *)
C27_LatestPointIsCurrentWhenRead ==
    [][DetectorReads =>
          \A i \in 1..Len(source_markets) :
             ReadByDetector(i) =>
                /\ rows_of(odds_history, i) # {}
                /\ Some(odds_history[latest_point(i)].probability)
                      = source_markets[i].current_probability]_vars

(* the movement events that record the same jump as event k, detected      *)
(* after the latest odds_history point of its source market                *)
SameJumpSinceLastPoint(k) ==
    LET e == movement_events[k]
        last == odds_history[latest_point(e.source_market_id)].time
    IN  { j \in 1..Len(movement_events) :
            /\ movement_events[j].source_market_id = e.source_market_id
            /\ movement_events[j].probability_before = e.probability_before
            /\ movement_events[j].probability_after = e.probability_after
            /\ movement_events[j].detected_at > last
            /\ e.detected_at > last }

(* C26: the detector records each jump at most once: passes that run with  *)
(* no ingestion of the source market in between leave at most one          *)
(* movement event for the same pair of consecutive odds_history points.    *)
C26_EachJumpRecordedOnce ==
    \A k \in 1..Len(movement_events) :
       ~UpsertOpen(movement_events[k].source_market_id)
          => Cardinality(SameJumpSinceLastPoint(k)) <= 1

-----------------------------------------------------------------------------
(* The adapter tasks without an end: run_worker sleeps and starts the next *)
(* pass for as long as the process runs.  Passes are not counted here and  *)
(* the rows a pass found are not kept; the records the venues deliver are  *)
(* counted, and a venue's listing ends: from request MaxLivePages on its   *)
(* pages are short and name no next page.  The client's timeout makes      *)
(* every request resolve, and every task gets its turn.                    *)

(* run_worker: the sleep is over and fetch_and_store sends its first       *)
(* request                                                                 *)
WakeUp(a) ==
    /\ fetch[a].pc = "idle"
    /\ fetch' = [fetch EXCEPT ![a] =
          [IdleFetch EXCEPT !.pc = "request", !.requests = 1]]
    /\ UNCHANGED <<workerVars, engineVars, brierVars, consensusVars>>

(* the records the venues deliver in all, and the requests of a pass *)
MaxDelivered == 1
MaxLivePages == 2

(* the answers a venue gives to the request of a pass *)
Answers(a) ==
    { page \in Pages(a) :
        /\ started + Len(page.records) <= MaxDelivered
        /\ fetch[a].requests >= MaxLivePages =>
              (page.padding = 0 /\ ~page.next_url) }

(* the steps of the task of adapter a *)
AdapterTask(a) ==
    \/ WakeUp(a)
    \/ \E page \in Answers(a) : Response(a, page)
    \/ ReadBody(a)
    \/ ProcessRecord(a)
    \/ UpsertFails(a)
    \/ BindOddsTime(a)
    \/ InsertOddsHistory(a)
    \/ InsertOddsHistoryFails(a)
    \/ EnsureUnifiedMarket(a)
    \/ \E statement \in {"select", "insert", "update"} : EnsureFails(a, statement)
    \/ ContinuePass(a)

NextLive == \E a \in Adapters : AdapterTask(a)

(* the steps of the task of adapter a but the one that takes up a record.  *)
(* That step is enabled exactly when UpsertFails is, and a task that took  *)
(* it has BindOddsTime before it, so a task that is given its turn for     *)
(* these steps is given its turn.                                          *)
Scheduled(a) ==
    \/ WakeUp(a)
    \/ \E page \in Answers(a) : Response(a, page)
    \/ ReadBody(a)
    \/ UpsertFails(a)
    \/ BindOddsTime(a)
    \/ InsertOddsHistory(a)
    \/ InsertOddsHistoryFails(a)
    \/ EnsureUnifiedMarket(a)
    \/ \E statement \in {"select", "insert", "update"} : EnsureFails(a, statement)
    \/ ContinuePass(a)

SpecLive ==
    Init /\ [][NextLive]_vars /\ \A a \in Adapters : WF_vars(Scheduled(a))

-----------------------------------------------------------------------------
(* Properties of the passes under answers and statements that fail.        *)

(* the step in which adapter a learns that the status of the answer is not *)
(* a success                                                               *)
StatusNotSuccess(a) ==
    fetch[a].pc = "request" /\ fetch'[a].pc = "idle" /\ fetch'[a].log = "status"

(* C31: when a venue answers any page of a pass with a status that is not  *)
(* a success, the pass is aborted and the database is left exactly as it   *)
(* was before the pass began: the venue's rows of source_markets and       *)
(* odds_history are the rows the pass found.                               *)
C31_StatusLeavesDatabaseAsBefore ==
    [][\A a \in Adapters :
          StatusNotSuccess(a) =>
             venue_rows(a, source_markets', odds_history') = fetch[a].before]_vars

(* the step in which adapter a has read the body of a page *)
BodyRead(a) == fetch[a].pc = "body" /\ fetch'[a].pc # "body"

(* C32: a malformed record of a page fails only that record: every         *)
(* well-formed record of the page that process_market does not pass over   *)
(* is handed on to be ingested when the page has been read.                *)
C32_MalformedFailsOnlyItself ==
    [][\A a \in Adapters :
          BodyRead(a) =>
             \A i \in 1..Len(fetch[a].records) :
                LET r == fetch[a].records[i]
                IN  (r # Malformed /\ ~returns_at_once(a, r)) =>
                       /\ fetch'[a].pc = "records"
                       /\ \E j \in 1..Len(fetch'[a].records) :
                             fetch'[a].records[j] = r]_vars

(* a statement of upsert_source_market or of ensure_unified_market returns *)
(* an error while adapter a ingests a record                               *)
RecordFails(a) ==
    \/ UpsertFails(a)
    \/ InsertOddsHistoryFails(a)
    \/ \E statement \in {"select", "insert", "update"} : EnsureFails(a, statement)

(* the pass of adapter a is in its `for` over the records of a page *)
InRecords(a) == fetch[a].pc \in {"records", "processing"}

(* C33: a database error while one record is ingested skips only that      *)
(* record: the pass stays in its `for` with every later record of the page *)
(* and with what it knows of the page, and a pass that has reached its     *)
(* records ends only after the last of them, returning Ok.                 *)
C33_DatabaseErrorSkipsOneRecord ==
    [][\A a \in BatchAdapters :
          /\ RecordFails(a) =>
                /\ fetch'[a].pc = "records"
                /\ fetch'[a].log = "none"
                /\ \E k \in 0..Len(fetch[a].records) :
                      /\ fetch'[a].records = rest_of(fetch[a].records, k)
                      /\ \A j \in 1..(k - 1) :
                            returns_at_once(a, fetch[a].records[j])
                /\ <<fetch'[a].requests, fetch'[a].len, fetch'[a].padding,
                     fetch'[a].next_url>>
                      = <<fetch[a].requests, fetch[a].len, fetch[a].padding,
                          fetch[a].next_url>>
          /\ (InRecords(a) /\ ~InRecords(a)') =>
                /\ AtRecords(a)
                /\ first_quoted(a, fetch[a].records) = 0
                /\ \/ fetch'[a].pc = "request"
                   \/ fetch'[a].pc = "idle" /\ fetch'[a].log = "ingested"]_vars

(* of a page of two records the first was skipped for an error and the     *)
(* second has been ingested                                                *)
C33_SecondIngestedAfterError ==
    \E a \in BatchAdapters :
        /\ fetch[a].pc = "processing" /\ adapter[a].pc = "idle"
        /\ fetch[a].len = 2 /\ fetch[a].padding = 0
        /\ fetch[a].records = << >>
        /\ total_of(fetch[a]) = 1

(* adapter a has just begun a pass: its first request is out and nothing   *)
(* is kept of the pass before                                              *)
PassFromScratch(a) ==
    /\ fetch[a].pc = "request" /\ fetch[a].requests = 1
    /\ fetch[a].total = 0 /\ fetch[a].records = << >>

(* C34: no error of a pass ends an adapter task: every pass comes to its   *)
(* end, after which the task sleeps, and a sleeping task starts another    *)
(* pass from scratch, whatever the pass before ran into.                   *)
C34_AdapterTaskNeverEnds ==
    \A a \in Adapters :
        /\ (fetch[a].pc # "idle") ~> (fetch[a].pc = "idle")
        /\ (fetch[a].pc = "idle") ~> PassFromScratch(a)

(* a task sleeps after a pass that returned an error while another has     *)
(* records of its page before it                                           *)
C34_SleepsAfterError ==
    \E a, b \in Adapters :
        /\ fetch[a].pc = "idle" /\ fetch[a].log = "error"
        /\ fetch[b].pc = "records"

-----------------------------------------------------------------------------
(* Properties of the consensus worker and of the detector under statements *)
(* that fail.                                                              *)

(* compute_market_consensus returns an error for the market at hand *)
MarketFails == ComputeSourcesFails \/ InsertSnapshotFails

(* the pass of the consensus worker is in its `for` over the markets *)
InMarkets == consensus.pc \in {"sources", "bind", "insert"}

(* C35: a failed computation for one market does not affect the others:    *)
(* no snapshot is written or lost, the pass goes on with the next market   *)
(* of its list without counting the failed one, and a pass leaves its      *)
(* `for` only after the last market, to sleep until the next pass.         *)
C35_FailedMarketSkipsOneMarket ==
    [][/\ MarketFails =>
             /\ consensus_snapshots' = consensus_snapshots
             /\ IF consensus.next < Len(consensus.market_ids)
                THEN /\ consensus'.pc = "sources"
                     /\ consensus'.market_ids = consensus.market_ids
                     /\ consensus'.next = consensus.next + 1
                     /\ consensus'.count = consensus.count
                ELSE consensus' = IdleConsensus
       /\ (InMarkets /\ ~InMarkets') =>
             /\ consensus.next = Len(consensus.market_ids)
             /\ consensus' = IdleConsensus]_vars

(* the computation for the first market of a pass failed, and the snapshot *)
(* of the second is about to be inserted                                   *)
C35_SecondComputedAfterFailure ==
    /\ consensus.pc = "insert"
    /\ consensus.next = 2
    /\ consensus.count = 0
    /\ consensus.row[1].market_id = consensus.market_ids[2]

(* C36: an error of the detector on one source market skips only that      *)
(* source market: after a failed insert the pass goes on with the next     *)
(* source market its query returned.                                       *)
C36_DetectorErrorSkipsOneSourceMarket ==
    [][(DetectRowFails /\ detector.next < Len(detector.markets)) =>
          /\ detector'.pc = "loop"
          /\ detector'.markets = detector.markets
          /\ detector'.next = detector.next + 1]_vars

(* the odds_history points of source market i, oldest first *)
points_of(i) == order_by_time(odds_history, rows_of(odds_history, i))

(* a movement event records the jump from probability p to probability q   *)
(* of source market i                                                      *)
Recorded(i, p, q) ==
    \E k \in 1..Len(movement_events) :
       /\ movement_events[k].source_market_id = i
       /\ movement_events[k].probability_before = p
       /\ movement_events[k].probability_after = q

(* C37: every jump of at least 0.05 between two consecutive observations   *)
(* of an active, linked source market is eventually recorded as a movement *)
(* event.  The detector reads the latest two points only, so a jump that   *)
(* is no longer the latest pair while no pass is under way must have been  *)
(* recorded by then.                                                       *)
C37_EveryJumpRecorded ==
    detector.pc = "idle" =>
       \A i \in 1..Len(source_markets) :
          (source_markets[i].status = "active" /\ source_markets[i].market_id # None) =>
             \A j \in 1..(Len(points_of(i)) - 2) :
                LET p == odds_history[points_of(i)[j]].probability
                    q == odds_history[points_of(i)[j + 1]].probability
                IN  Abs(q - p) >= 50000 => Recorded(i, p, q)

-----------------------------------------------------------------------------
(* Properties of the markets table under all the workers.                  *)

(* C38: no step of an adapter, of the detector or of the consensus worker  *)
(* changes a row of markets once it is written: its status stays the one   *)
(* it was created with, and ensure_unified_market on a slug that exists    *)
(* leaves the title as first written (the model's rows hold neither the    *)
(* update timestamp nor the category, which is never given).               *)
C38_MarketsRowsNeverChange ==
    [][/\ Len(markets') >= Len(markets)
       /\ \A i \in 1..Len(markets) :
             /\ markets'[i] = markets[i]
             /\ markets[i].status = DefaultStatus]_vars

(* two source markets under different titles are linked to one market,     *)
(* which the consensus worker has computed                                 *)
C38_EnsuredAgainUnderAnotherTitle ==
    \E i, j \in 1..Len(source_markets) :
        /\ source_markets[i].market_id # None
        /\ source_markets[i].market_id = source_markets[j].market_id
        /\ source_markets[i].title # source_markets[j].title
        /\ \E k \in 1..Len(consensus_snapshots) :
              Some(consensus_snapshots[k].market_id) = source_markets[i].market_id

-----------------------------------------------------------------------------
(* crates/consensus/src/engine.rs in binary64: the weights and the         *)
(* weighted mean of calculate_consensus as the f64 operations compute      *)
(* them, for sources whose raw weight involves no logarithm (fewer than    *)
(* 30 resolved questions, or an accuracy of 0).  Agreement, confidence and *)
(* outliers do not enter the probability and are left to the section on    *)
(* engine.rs above.                                                        *)

(* probabilities in hundredths: 0.06, 0.30 and 1.00 *)
ProbValues64 == {6, 30, 100}

(* no record at all, and an accuracy of 0 over 30 resolved questions *)
TrackRecords64 ==
    { [accuracy_pct |-> None,    resolved_count |-> 0,  volume |-> None],
      [accuracy_pct |-> Some(0), resolved_count |-> 30, volume |-> None] }

SourceAttrs64 ==
    { [probability |-> p, accuracy_pct |-> t.accuracy_pct,
       resolved_count |-> t.resolved_count, volume |-> t.volume] :
      p \in ProbValues64, t \in TrackRecords64 }

(* SourceInput.probability, the f64 parsed from its decimal *)
Prob64(s) == F64FromRatio(s.probability, 100)

(* engine.rs 146-157: 0.5 below the gate; above it accuracy * (1.0 +       *)
(* volume_boost), in which the accuracy is 0.0 / 100.0 and the other       *)
(* factor is finite, so that the product is the accuracy                   *)
raw_weight64(s) ==
    IF s.resolved_count >= MIN_RESOLVED_FOR_ACCURACY
    THEN F64DivInt(F64FromRatio(s.accuracy_pct[1], 1), 100)
    ELSE F64FromRatio(1, 2)

RECURSIVE F64SumTo(_, _)
F64SumTo(s, n) == IF n = 0 THEN F64Zero ELSE F64Add(F64SumTo(s, n - 1), s[n])
(* iter().sum::<f64>(): the terms added one after the other from 0.0 *)
F64Sum(s) == F64SumTo(s, Len(s))

(* engine.rs 160-166: w / sum for a raw weight w of 0.0 or 0.5 and a sum   *)
(* of k halves is the quotient of 2w by k, rounded once                    *)
normalize64(raw) ==
    LET sum == F64Sum(raw)
        k == Cardinality({ i \in 1..Len(raw) : raw[i] # F64Zero })
    IN  IF sum = F64Zero
        THEN SeqMap(LAMBDA w : F64DivInt(F64One, Len(raw)), raw)
        ELSE SeqMap(LAMBDA w : F64DivInt(F64Add(w, w), k), raw)

calculate_weights64(srcs) == normalize64(SeqMap(raw_weight64, srcs))

(* a variant that sums the probabilities without their weights *)
weighted_mean64_unweighted(srcs, weights) == F64Sum(SeqMap(Prob64, srcs))

(* engine.rs 91-94 *)
weighted_mean64(srcs, weights) ==
    F64Sum(SeqZip(LAMBDA s, w : F64Mul(Prob64(s), w), srcs, weights))

(* f64::clamp(0.0, 1.0) of a value that is not negative *)
clamp64(x) == IF F64Gt(x, F64One) THEN F64One ELSE x

(* engine.rs 64-140: the probability, the count and the weights of the     *)
(* result                                                                  *)
calculate_consensus64(srcs) ==
    IF Len(srcs) = 0 THEN Err
    ELSE IF Len(srcs) = 1
    THEN [tag |-> "Ok", probability |-> Prob64(srcs[1]), source_count |-> 1,
          weights |-> << F64One >>]
    ELSE LET weights == calculate_weights64(srcs)
         IN  [tag |-> "Ok",
              probability |-> clamp64(weighted_mean64(srcs, weights)),
              source_count |-> Len(srcs),
              weights |-> weights]

InitEngine64 ==
    /\ \E n \in 0..MaxSources :
         \E attrs \in [1..n -> SourceAttrs64] :
            sources = [i \in 1..n |-> WithId(attrs[i], i)]
    /\ result = Pending
    /\ InitWorkers
    /\ BrierIdle

CalculateConsensus64 ==
    /\ result = Pending
    /\ result' = calculate_consensus64(sources)
    /\ UNCHANGED <<sources, workerVars, brierVars, consensusVars, fetch>>

NextEngine64 == CalculateConsensus64

SpecEngine64 == InitEngine64 /\ [][NextEngine64]_vars

-----------------------------------------------------------------------------
(* Properties of the weights and of the weighted mean.                     *)

(* the raw weight as stated: 0.5 below 30 resolved questions, otherwise    *)
(* (accuracy_pct or 50) / 100 * (1 + max(1, ln(resolved_count)) / 5), the  *)
(* logarithm in tenths                                                     *)
StatedRawWeight(s) ==
    IF s.resolved_count < 30 THEN Rat(5, 10)
    ELSE RatMul(Rat(IF s.accuracy_pct = None THEN 50 ELSE s.accuracy_pct[1], 100),
                RatAdd(Rat(1, 1),
                       Rat(IF LnTenths(s.resolved_count) > 10
                           THEN LnTenths(s.resolved_count) ELSE 10, 50)))

(* the accuracy of a source, 50 when it has none *)
AccuracyOr50(s) == IF s.accuracy_pct = None THEN 50 ELSE s.accuracy_pct[1]

(* C39: the weights calculate_consensus returns for two or more sources    *)
(* are in the proportion of the stated raw weights, which is 0.5 below 30  *)
(* resolved questions whatever the accuracy, and among sources with the    *)
(* same resolved_count of 30 or more a higher accuracy_pct never has the   *)
(* lower weight.                                                           *)
C39_WeightsFollowStatedRawWeights ==
    (Returned /\ ReturnedOk /\ Len(sources) >= 2) =>
       \A i, j \in 1..Len(sources) :
          /\ RatMul(result.weights[i].weight, StatedRawWeight(sources[j]))
                = RatMul(result.weights[j].weight, StatedRawWeight(sources[i]))
          /\ (/\ sources[i].resolved_count = sources[j].resolved_count
              /\ sources[i].resolved_count >= 30
              /\ AccuracyOr50(sources[i]) >= AccuracyOr50(sources[j]))
                => RatLe(result.weights[j].weight, result.weights[i].weight)

(* among three sources, two with 100 resolved questions of which the       *)
(* accurate one outweighs the one of unknown accuracy, and one below the   *)
(* gate whose accuracy of 90 counts for nothing                            *)
C39_Witness ==
    /\ Returned /\ ReturnedOk /\ Len(sources) = 3
    /\ \E i, j, k \in 1..3 :
          /\ sources[i].resolved_count = 100 /\ sources[i].accuracy_pct = Some(90)
          /\ sources[j].resolved_count = 100 /\ sources[j].accuracy_pct = None
          /\ sources[k].resolved_count = 29 /\ sources[k].accuracy_pct = Some(90)
          /\ RatLt(result.weights[j].weight, result.weights[i].weight)
          /\ RatLt(result.weights[k].weight, result.weights[j].weight)

(* the smallest and the largest probability of the inputs, in hundredths *)
MinProbability == CHOOSE p \in { sources[i].probability : i \in 1..Len(sources) } :
                     \A i \in 1..Len(sources) : p <= sources[i].probability
MaxProbability == CHOOSE p \in { sources[i].probability : i \in 1..Len(sources) } :
                     \A i \in 1..Len(sources) : sources[i].probability <= p

TwoOrMoreReturned == Returned /\ ReturnedOk /\ Len(sources) >= 2

====
